---- MODULE Spec2Model ----
(***************************************************************************)
(* Model of romlib's Patch (src/romlib/patch.py): a sparse mapping from    *)
(* byte offset to byte value, its block view, its filter against a         *)
(* reference image, and its IPS (binary) and IPST (text) readers and       *)
(* writers.                                                                *)
(*                                                                         *)
(* A dictionary is a function whose DOMAIN is its key set.  A bytes object *)
(* is a sequence of integers 0..255.  A text line is a sequence of         *)
(* one-character strings that ends with the newline character; a text     *)
(* file is a sequence of lines.  An exception is the name of its class in  *)
(* the err field of an operation's result.                                 *)
(***************************************************************************)
EXTENDS Integers, Sequences, FiniteSets, TLC

VARIABLES
  data,      \* the dictionary the caller passed to Patch(data, rom)
  changes,   \* Patch.changes
  rom,       \* the reference image, a record [size, byte]
  blocks,    \* the value last returned by Patch._blockify
  bfile,     \* the bytes of the binary (IPS) file
  tfile,     \* the lines of the text (IPST) file
  bogo,      \* the bogobyte argument of the last writer call
  loaded,    \* << >>, or <<c>> where c is the changes of the Patch a loader returned
  op,        \* the operation that ran last
  err,       \* the exception the last operation raised, or "none"
  errline,   \* the line number in that exception's message, or 0
  heap,      \* the dictionary objects of a patch and its caller: [obj, data, changes]
  registry,  \* Structure.registry: type name -> list of Fields
  view,      \* the bits of the buffer the structure or table is bound to
  vbuf,      \* the bits of the buffer of the structure handed in as a value
  attrs,     \* the plain attributes set on the structure after construction
  table,     \* the Table under test: [typename, index, size, units]
  ret        \* what the last operation returned

vars == <<data, changes, rom, blocks, bfile, tfile, bogo, loaded, op, err, errline,
          heap, registry, view, vbuf, attrs, table, ret>>

\* The state of a patch and its files, and the state of the structure layer.
patchvars == <<data, changes, rom, blocks, bfile, tfile, bogo, loaded, errline, heap>>
structvars == <<registry, view, vbuf, attrs, table, ret>>

(***************************************************************************)
(* Program constants                                                       *)
(***************************************************************************)
_ips_header == <<"P", "A", "T", "C", "H">>
_ips_footer == <<"E", "O", "F">>
_ips_bogo_address == 4542278     \* 0x454f46
NoneValue == -1                  \* Python's None where an integer may stand
_ips_rle_threshold == 10         \* defined by the module and read by no function of it

(***************************************************************************)
(* Bounds and input domains                                                *)
(***************************************************************************)
MaxEntries == 5                  \* most entries of a caller's dictionary
MaxLines == 2                    \* most lines between header and footer of a text file read
MaxRecords == 2                  \* most records of a binary file read
MaxCut == 3                      \* most bytes cut off the end of a binary file read

\* Offsets of the 24-bit IPS address space the dictionaries draw their keys
\* from: a run of four adjacent low offsets, whose six hexadecimal digits are
\* all decimal digits, and the neighbourhood of the sentinel.
Offsets == {16, 17, 18, 19,
            _ips_bogo_address - 1, _ips_bogo_address,
            _ips_bogo_address + 1, _ips_bogo_address + 2}

Bytes == {10, 171}               \* byte values of the entries: 0x0A, 0xAB

BogoBytes == {NoneValue, 171}    \* bogobyte arguments: None, 0xAB

\* Reference images: a size and the byte at every offset below it.
Roms == {[size |-> 16777216, byte |-> [o \in Offsets |-> 10]],
         [size |-> 16777216, byte |-> [o \in Offsets |-> IF o < 18 THEN 171 ELSE 10]],
         [size |-> 16777216, byte |-> [o \in Offsets |-> 0]],
         [size |-> 18,       byte |-> [o \in Offsets |-> 171]]}

(***************************************************************************)
(* Python built-ins                                                        *)
(***************************************************************************)
Range(s) == {s[i] : i \in DOMAIN s}

SetMin(S) == CHOOSE m \in S : \A x \in S : m <= x

\* sorted(S) of a set of integers
RECURSIVE sorted(_)
sorted(S) ==
  IF S = {} THEN << >>
  ELSE LET m == SetMin(S) IN <<m>> \o sorted(S \ {m})

\* d[k] = v
Put(d, k, v) == [x \in DOMAIN d \cup {k} |-> IF x = k THEN v ELSE d[x]]

\* {k: d[k] for k in d if k != key}
Pop(d, k) == [x \in DOMAIN d \ {k} |-> d[x]]

EmptyDict == << >>

(***************************************************************************)
(* Patch._blockify                                                         *)
(***************************************************************************)
\* Faulty variant of blockify_loop: the block still open when the entries
\* run out is not stored.  C6 must detect it.
RECURSIVE blockify_loop_droplast(_, _, _, _, _, _)
blockify_loop_droplast(c, items, merged, block, start, offset) ==
  IF items = << >>
  THEN merged
  ELSE LET o == Head(items)
           v == c[o]
       IN IF start = NoneValue
          THEN blockify_loop_droplast(c, Tail(items), merged, <<v>>, o, o)
          ELSE IF o = offset + 1
          THEN blockify_loop_droplast(c, Tail(items), merged, Append(block, v), start, o)
          ELSE blockify_loop_droplast(c, Tail(items), Put(merged, start, block), <<v>>, o, o)

RECURSIVE blockify_loop(_, _, _, _, _, _)
blockify_loop(c, items, merged, block, start, offset) ==
  IF items = << >>
  THEN IF start # NoneValue THEN Put(merged, start, block) ELSE merged
  ELSE LET o == Head(items)
           v == c[o]
       IN IF start = NoneValue
          THEN blockify_loop(c, Tail(items), merged, <<v>>, o, o)
          ELSE IF o = offset + 1
          THEN blockify_loop(c, Tail(items), merged, Append(block, v), start, o)
          ELSE blockify_loop(c, Tail(items), Put(merged, start, block), <<v>>, o, o)

_blockify(c) ==
  blockify_loop(c, sorted(DOMAIN c), EmptyDict, << >>, NoneValue, NoneValue)

(***************************************************************************)
(* Patch.from_blocks: the blocks are visited in the dictionary's order,    *)
(* which for the value of _blockify is ascending start offset.             *)
(***************************************************************************)
RECURSIVE from_blocks_data(_, _, _, _)
from_blocks_data(c, start, bytes, i) ==
  IF i > Len(bytes) THEN c
  ELSE from_blocks_data(Put(c, start + (i - 1), bytes[i]), start, bytes, i + 1)

RECURSIVE from_blocks_loop(_, _, _)
from_blocks_loop(c, b, starts) ==
  IF starts = << >> THEN c
  ELSE from_blocks_loop(from_blocks_data(c, Head(starts), b[Head(starts)], 1),
                        b, Tail(starts))

from_blocks(b) == from_blocks_loop(EmptyDict, b, sorted(DOMAIN b))

(***************************************************************************)
(* Patch.filter and Patch.__init__                                         *)
(***************************************************************************)
\* getbyte: f.seek(offset); f.read(1)[0].  Reading at or past the end of
\* the image gives b"", whose [0] raises IndexError.
getbyte_ok(r, offset) == offset < r.size
getbyte(r, offset) == r.byte[offset]

\* Faulty variant of filter_keeps: the comparison is inverted.  C5 must
\* detect it.
filter_keeps_equal(value, rombyte) == value = rombyte

filter_keeps(value, rombyte) == value # rombyte

filter(c, r) ==
  IF \E o \in DOMAIN c : ~getbyte_ok(r, o)
  THEN [err |-> "IndexError", changes |-> c]
  ELSE [err |-> "none",
        changes |-> [o \in {k \in DOMAIN c : filter_keeps(c[k], getbyte(r, k))} |-> c[o]]]

\* data.copy()
dict_copy(d) == [k \in DOMAIN d |-> d[k]]

(***************************************************************************)
(* Bytes and text: str.encode, codecs.decode, int.to_bytes, int.from_bytes, *)
(* str.format, int(), bytes.fromhex, str.rstrip, str.split                 *)
(***************************************************************************)
HexChars == <<"0", "1", "2", "3", "4", "5", "6", "7",
              "8", "9", "A", "B", "C", "D", "E", "F">>
Letters == <<"A", "B", "C", "D", "E", "F", "G", "H", "I", "J", "K", "L", "M",
             "N", "O", "P", "Q", "R", "S", "T", "U", "V", "W", "X", "Y", "Z">>
Newline == "\n"
Whitespace == {" ", Newline}

\* ord(ch) for the characters the patch formats use
Ord(ch) ==
  IF \E i \in 1..10 : HexChars[i] = ch
  THEN 47 + (CHOOSE i \in 1..10 : HexChars[i] = ch)
  ELSE IF \E i \in 1..26 : Letters[i] = ch
  THEN 64 + (CHOOSE i \in 1..26 : Letters[i] = ch)
  ELSE IF ch = Newline THEN 10
  ELSE IF ch = " " THEN 32
  ELSE IF ch = "#" THEN 35
  ELSE 58  \* ":"

\* chr(n); every other code point is one character that no text here holds
Chr(n) ==
  IF n \in 48..57 THEN HexChars[n - 47]
  ELSE IF n \in 65..90 THEN Letters[n - 64]
  ELSE IF n = 10 THEN Newline
  ELSE IF n = 32 THEN " "
  ELSE IF n = 35 THEN "#"
  ELSE IF n = 58 THEN ":"
  ELSE "?"

\* str.encode() and codecs.decode() of ASCII text
encode(s) == [i \in DOMAIN s |-> Ord(s[i])]
decode(b) == [i \in DOMAIN b |-> Chr(b[i])]

\* Faulty variant of to_bytes: little-endian.  C1 must detect it.
RECURSIVE to_bytes_little(_, _)
to_bytes_little(n, length) ==
  IF length = 0 THEN << >>
  ELSE <<n % 256>> \o to_bytes_little(n \div 256, length - 1)

\* n.to_bytes(length, 'big')
RECURSIVE to_bytes(_, _)
to_bytes(n, length) ==
  IF length = 0 THEN << >>
  ELSE Append(to_bytes(n \div 256, length - 1), n % 256)

\* int.from_bytes(b, 'big'); b"" gives 0
RECURSIVE from_bytes(_)
from_bytes(b) ==
  IF b = << >> THEN 0
  ELSE from_bytes(SubSeq(b, 1, Len(b) - 1)) * 256 + b[Len(b)]

\* f.read(n) at 1-based position pos: at most n bytes, fewer at the end
read(f, pos, n) ==
  SubSeq(f, pos, IF pos + n - 1 <= Len(f) THEN pos + n - 1 ELSE Len(f))

RECURSIVE hex_digits(_)
hex_digits(n) ==
  IF n < 16 THEN <<HexChars[n + 1]>>
  ELSE Append(hex_digits(n \div 16), HexChars[(n % 16) + 1])

\* "{:0<width>X}".format(n): upper-case hexadecimal, zero-padded to width
format_X(n, width) ==
  LET d == hex_digits(n)
  IN IF Len(d) >= width THEN d
     ELSE [i \in 1..(width - Len(d)) |-> "0"] \o d

DigitValue(ch) == (CHOOSE i \in 1..16 : HexChars[i] = ch) - 1

IsDigit(ch, base) == \E i \in 1..base : HexChars[i] = ch

RECURSIVE digits_value(_, _)
digits_value(s, base) ==
  IF s = << >> THEN 0
  ELSE digits_value(SubSeq(s, 1, Len(s) - 1), base) * base + DigitValue(s[Len(s)])

\* int(s, base) of a string of digits: [ok, value]; ok is FALSE where Python
\* raises ValueError (an empty string, a character that is no digit of base)
int_parse(s, base) ==
  IF s # << >> /\ \A i \in DOMAIN s : IsDigit(s[i], base)
  THEN [ok |-> TRUE, value |-> digits_value(s, base)]
  ELSE [ok |-> FALSE, value |-> 0]

\* bytes.fromhex(s): [ok, bytes]; ok is FALSE where Python raises ValueError
fromhex(s) ==
  IF Len(s) % 2 = 0 /\ \A i \in DOMAIN s : IsDigit(s[i], 16)
  THEN [ok |-> TRUE,
        bytes |-> [i \in 1..(Len(s) \div 2) |->
                     DigitValue(s[2 * i - 1]) * 16 + DigitValue(s[2 * i])]]
  ELSE [ok |-> FALSE, bytes |-> << >>]

\* s.rstrip()
RECURSIVE rstrip(_)
rstrip(s) ==
  IF s # << >> /\ s[Len(s)] \in Whitespace
  THEN rstrip(SubSeq(s, 1, Len(s) - 1))
  ELSE s

\* s.split(":")
RECURSIVE split_from(_, _, _)
split_from(s, i, cur) ==
  IF i > Len(s) THEN <<cur>>
  ELSE IF s[i] = ":" THEN <<cur>> \o split_from(s, i + 1, << >>)
  ELSE split_from(s, i + 1, Append(cur, s[i]))

split(s) == split_from(s, 1, << >>)

\* print(s, file=f) writes s and a newline
print_line(s) == Append(s, Newline)

\* changes[offset+n] = b for n, b in enumerate(bytes)
put_bytes(c, offset, bytes) ==
  [x \in DOMAIN c \cup {offset + (i - 1) : i \in DOMAIN bytes} |->
     IF x >= offset /\ x < offset + Len(bytes) THEN bytes[x - offset + 1] ELSE c[x]]

\* changes[offset+i] = value for i in range(n)
put_run(c, offset, n, value) ==
  [x \in DOMAIN c \cup {offset + i : i \in 0..(n - 1)} |->
     IF x >= offset /\ x < offset + n THEN value ELSE c[x]]

(***************************************************************************)
(* Patch._ips_sanitize_changes                                             *)
(***************************************************************************)
\* Faulty variant of _ips_sanitize_changes: the bogo byte is put after the
\* block's bytes.  C3 must detect it.
_ips_sanitize_changes_append(c, bogobyte) ==
  LET b == _blockify(c)
  IN IF _ips_bogo_address \notin DOMAIN b
     THEN [err |-> "none", blocks |-> b]
     ELSE IF bogobyte = NoneValue
     THEN [err |-> "PatchValueError", blocks |-> EmptyDict]
     ELSE [err |-> "none",
           blocks |-> Put(Pop(b, _ips_bogo_address), _ips_bogo_address - 1,
                          b[_ips_bogo_address] \o to_bytes(bogobyte, 1))]

\* Faulty variant of _ips_sanitize_changes: a missing bogo byte is not
\* reported and the block stays at the sentinel address.  C4 must detect it.
_ips_sanitize_changes_nocheck(c, bogobyte) ==
  LET b == _blockify(c)
  IN IF _ips_bogo_address \notin DOMAIN b \/ bogobyte = NoneValue
     THEN [err |-> "none", blocks |-> b]
     ELSE [err |-> "none",
           blocks |-> Put(Pop(b, _ips_bogo_address), _ips_bogo_address - 1,
                          to_bytes(bogobyte, 1) \o b[_ips_bogo_address])]

_ips_sanitize_changes(c, bogobyte) ==
  LET b == _blockify(c)
  IN IF _ips_bogo_address \notin DOMAIN b
     THEN [err |-> "none", blocks |-> b]                       \* KeyError: pass
     ELSE IF bogobyte = NoneValue
     THEN [err |-> "PatchValueError", blocks |-> EmptyDict]    \* AttributeError
     ELSE [err |-> "none",
           blocks |-> Put(Pop(b, _ips_bogo_address), _ips_bogo_address - 1,
                          to_bytes(bogobyte, 1) \o b[_ips_bogo_address])]

(***************************************************************************)
(* Patch.to_ips.  The offsets and block lengths of the model fit the       *)
(* 3-byte and 2-byte fields, so int.to_bytes raises no OverflowError.      *)
(***************************************************************************)
\* Faulty variant of use_rle: the threshold is off by one.  C7 must detect it.
use_rle_from3(bytes) == Len(bytes) >= 3 /\ Cardinality(Range(bytes)) = 1

\* len(data) > 3 and len(set(data)) == 1
use_rle(bytes) == Len(bytes) > 3 /\ Cardinality(Range(bytes)) = 1

\* the bytes one loop iteration of to_ips writes
ips_record(offset, bytes) ==
  IF use_rle(bytes)
  THEN to_bytes(offset, 3) \o <<0, 0>> \o to_bytes(Len(bytes), 2) \o SubSeq(bytes, 1, 1)
  ELSE to_bytes(offset, 3) \o to_bytes(Len(bytes), 2) \o bytes

RECURSIVE ips_records(_, _)
ips_records(b, starts) ==
  IF starts = << >> THEN << >>
  ELSE ips_record(Head(starts), b[Head(starts)]) \o ips_records(b, Tail(starts))

\* [err, out]: the exception raised and the bytes written to f
to_ips(c, bogobyte) ==
  LET s == _ips_sanitize_changes(c, bogobyte)
  IN IF s.err # "none"
     THEN [err |-> s.err, out |-> << >>]
     ELSE [err |-> "none",
           out |-> encode(_ips_header)
                   \o ips_records(s.blocks, sorted(DOMAIN s.blocks))
                   \o encode(_ips_footer)]

(***************************************************************************)
(* Patch.to_ipst                                                           *)
(***************************************************************************)
RECURSIVE datastr(_)
datastr(bytes) ==
  IF bytes = << >> THEN << >>
  ELSE format_X(Head(bytes), 2) \o datastr(Tail(bytes))

\* the line one loop iteration of to_ipst prints
ipst_record(offset, bytes) ==
  IF use_rle(bytes)
  THEN print_line(format_X(offset, 6) \o <<":">> \o format_X(0, 4) \o <<":">>
                  \o format_X(Len(bytes), 4) \o <<":">> \o format_X(bytes[1], 1))
  ELSE print_line(format_X(offset, 6) \o <<":">> \o format_X(Len(bytes), 4)
                  \o <<":">> \o datastr(bytes))

RECURSIVE ipst_records(_, _)
ipst_records(b, starts) ==
  IF starts = << >> THEN << >>
  ELSE <<ipst_record(Head(starts), b[Head(starts)])>> \o ipst_records(b, Tail(starts))

\* [err, out]: the exception raised and the lines written to f
to_ipst(c, bogobyte) ==
  LET s == _ips_sanitize_changes(c, bogobyte)
  IN IF s.err # "none"
     THEN [err |-> s.err, out |-> << >>]
     ELSE [err |-> "none",
           out |-> <<print_line(_ips_header)>>
                   \o ipst_records(s.blocks, sorted(DOMAIN s.blocks))
                   \o <<print_line(_ips_footer)>>]

(***************************************************************************)
(* Patch.from_ips: [err, changes]                                          *)
(***************************************************************************)
RECURSIVE from_ips_loop(_, _, _)
from_ips_loop(f, pos, c) ==
  LET d == read(f, pos, 3)
  IN IF d = encode(_ips_footer)
     THEN [err |-> "none", changes |-> c]
     ELSE LET offset == from_bytes(d)
              p2 == pos + Len(d)
              sz == read(f, p2, 2)
              size == from_bytes(sz)
              p3 == p2 + Len(sz)
          IN IF size > 0
             THEN LET body == read(f, p3, size)
                  IN from_ips_loop(f, p3 + Len(body), put_bytes(c, offset, body))
             ELSE LET rs == read(f, p3, 2)
                      rle_size == from_bytes(rs)
                      p4 == p3 + Len(rs)
                      vb == read(f, p4, 1)
                  IN IF vb = << >>
                     THEN [err |-> "IndexError", changes |-> c]    \* f.read(1)[0]
                     ELSE from_ips_loop(f, p4 + 1, put_run(c, offset, rle_size, vb[1]))

from_ips(f) ==
  IF decode(read(f, 1, 5)) # _ips_header
  THEN [err |-> "PatchFormatError", changes |-> EmptyDict]
  ELSE from_ips_loop(f, 6, EmptyDict)

(***************************************************************************)
(* Patch.from_ipst: [err, line, changes]                                   *)
(***************************************************************************)
\* not line or not line.startswith("#")
ipst_keep(line) == line = << >> \/ line[1] # "#"

RECURSIVE from_ipst_loop(_, _, _)
from_ipst_loop(f, k, c) ==
  IF k > Len(f) THEN [err |-> "none", line |-> 0, changes |-> c]
  ELSE
    LET line_number == k    \* enumerate(f, 2) after next(f) took f[1]
        line == rstrip(f[k])
        parts == split(line)
    IN IF line = _ips_footer
       THEN [err |-> "none", line |-> 0, changes |-> c]
       ELSE IF Len(parts) = 3
       THEN LET bs == fromhex(parts[3])
                offset == int_parse(parts[1], 10)    \* int(offset)
            IN IF ~bs.ok
               THEN [err |-> "ValueError", line |-> 0, changes |-> c]
               ELSE IF bs.bytes = << >>
               THEN from_ipst_loop(f, k + 1, c)
               ELSE IF ~offset.ok
               THEN [err |-> "ValueError", line |-> 0, changes |-> c]
               ELSE from_ipst_loop(f, k + 1, put_bytes(c, offset.value, bs.bytes))
       ELSE IF Len(parts) = 4
       THEN LET offset == int_parse(parts[1], 16)
                size == int_parse(parts[2], 16)
                rle_size == int_parse(parts[3], 16)
                value == int_parse(parts[4], 16)
            IN IF ~(offset.ok /\ size.ok /\ rle_size.ok /\ value.ok)
               THEN [err |-> "ValueError", line |-> 0, changes |-> c]
               ELSE IF rle_size.value > 0 /\ value.value > 255
               THEN [err |-> "PatchValueError", line |-> line_number, changes |-> c]
               ELSE from_ipst_loop(f, k + 1,
                                   put_run(c, offset.value, rle_size.value, value.value))
       ELSE [err |-> "PatchFormatError", line |-> line_number, changes |-> c]

from_ipst(file) ==
  LET f == SelectSeq(file, ipst_keep)
  IN IF f = << >>
     THEN [err |-> "StopIteration", line |-> 0, changes |-> EmptyDict]    \* next(f)
     ELSE IF rstrip(f[1]) # _ips_header
     THEN [err |-> "PatchFormatError", line |-> 0, changes |-> EmptyDict]
     ELSE from_ipst_loop(f, 2, EmptyDict)

(***************************************************************************)
(* State machine of a Patch held in memory                                 *)
(***************************************************************************)
Dicts == UNION {[D -> Bytes] : D \in {S \in SUBSET Offsets : Cardinality(S) <= MaxEntries}}

\* No structure type is defined and no buffer is bound.
NoStructure ==
  /\ registry = << >>
  /\ view = << >>
  /\ vbuf = << >>
  /\ attrs = << >>
  /\ table = << >>
  /\ ret = << >>

\* Patch(data): the state after construction without a reference image.
InitPatch ==
  /\ data \in Dicts
  /\ changes = dict_copy(data)
  /\ blocks = EmptyDict
  /\ bfile = << >>
  /\ tfile = << >>
  /\ bogo = NoneValue
  /\ loaded = << >>
  /\ op = "init"
  /\ err = "none"
  /\ errline = 0
  /\ heap = << >>
  /\ NoStructure

Init ==
  /\ InitPatch
  /\ rom \in Roms

\* Patch(data, rom): construction with a reference image filters the copy.
PatchInit ==
  /\ LET r == filter(dict_copy(data), rom)
     IN /\ changes' = r.changes
        /\ err' = r.err
  /\ op' = "init_rom"
  /\ errline' = 0
  /\ UNCHANGED <<data, rom, blocks, bfile, tfile, bogo, loaded>>
  /\ UNCHANGED <<heap, structvars>>

\* patch.filter(rom)
Filter ==
  /\ LET r == filter(changes, rom)
     IN /\ changes' = r.changes
        /\ err' = r.err
  /\ op' = "filter"
  /\ errline' = 0
  /\ UNCHANGED <<data, rom, blocks, bfile, tfile, bogo, loaded>>
  /\ UNCHANGED <<heap, structvars>>

\* Patch._blockify(patch.changes)
Blockify ==
  /\ blocks' = _blockify(changes)
  /\ op' = "_blockify"
  /\ err' = "none"
  /\ errline' = 0
  /\ UNCHANGED <<data, changes, rom, bfile, tfile, bogo, loaded>>
  /\ UNCHANGED <<heap, structvars>>

\* Patch.from_blocks(blocks)
FromBlocks ==
  /\ op = "_blockify"
  /\ loaded' = <<from_blocks(blocks)>>
  /\ op' = "from_blocks"
  /\ err' = "none"
  /\ errline' = 0
  /\ UNCHANGED <<data, changes, rom, blocks, bfile, tfile, bogo>>
  /\ UNCHANGED <<heap, structvars>>

Next ==
  \/ PatchInit
  \/ Filter
  \/ Blockify
  \/ FromBlocks

Spec == Init /\ [][Next]_vars

(***************************************************************************)
(* State machines of the writers and the readers.  A writer is handed a    *)
(* file opened for writing, empty at the call; a reader is handed the file *)
(* from its first byte or line.                                            *)
(***************************************************************************)
\* patch.to_ips(f, bogobyte)
ToIps(bogobyte) ==
  /\ LET r == to_ips(changes, bogobyte)
     IN /\ bfile' = r.out
        /\ err' = r.err
  /\ bogo' = bogobyte
  /\ op' = "to_ips"
  /\ errline' = 0
  /\ UNCHANGED <<data, changes, rom, blocks, tfile, loaded>>
  /\ UNCHANGED <<heap, structvars>>

\* patch.to_ipst(f, bogobyte)
ToIpst(bogobyte) ==
  /\ LET r == to_ipst(changes, bogobyte)
     IN /\ tfile' = r.out
        /\ err' = r.err
  /\ bogo' = bogobyte
  /\ op' = "to_ipst"
  /\ errline' = 0
  /\ UNCHANGED <<data, changes, rom, blocks, bfile, loaded>>
  /\ UNCHANGED <<heap, structvars>>

\* Patch.from_ips(f)
FromIps ==
  /\ LET r == from_ips(bfile)
     IN /\ loaded' = IF r.err = "none" THEN <<r.changes>> ELSE << >>
        /\ err' = r.err
  /\ op' = "from_ips"
  /\ errline' = 0
  /\ UNCHANGED <<data, changes, rom, blocks, bfile, tfile, bogo>>
  /\ UNCHANGED <<heap, structvars>>

\* Patch.from_ipst(f)
FromIpst ==
  /\ LET r == from_ipst(tfile)
     IN /\ loaded' = IF r.err = "none" THEN <<r.changes>> ELSE << >>
        /\ err' = r.err
        /\ errline' = r.line
  /\ op' = "from_ipst"
  /\ UNCHANGED <<data, changes, rom, blocks, bfile, tfile, bogo>>
  /\ UNCHANGED <<heap, structvars>>

NoRom == [size |-> 0, byte |-> [o \in Offsets |-> 0]]

\* A patch and no reference image.
InitIO ==
  /\ InitPatch
  /\ rom = NoRom

\* Both writers on one patch.
NextWrite ==
  \/ \E b \in BogoBytes : ToIps(b)
  \/ \E b \in BogoBytes : ToIpst(b)

SpecWrite == InitIO /\ [][NextWrite]_vars

\* The binary writer and the binary reader on the file it wrote.
NextIps ==
  \/ \E b \in BogoBytes : ToIps(b)
  \/ FromIps

SpecIps == InitIO /\ [][NextIps]_vars

\* The text writer and the text reader on the file it wrote.
NextIpst ==
  \/ \E b \in BogoBytes : ToIpst(b)
  \/ FromIpst

SpecIpst == InitIO /\ [][NextIpst]_vars

(***************************************************************************)
(* Files handed to the readers: well-formed ones, and ones with a wrong    *)
(* header, a missing terminator, a cut-off end, comment and blank lines,   *)
(* an RLE value wider than a byte, or a line of the wrong shape.           *)
(***************************************************************************)
SeqsUpTo(S, n) == UNION {[1..k -> S] : k \in 0..n}

RECURSIVE Flatten(_)
Flatten(ss) == IF ss = << >> THEN << >> ELSE Head(ss) \o Flatten(Tail(ss))

BadHeader == <<"P", "A", "T", "C", "X">>

RunOfFour == <<171, 171, 171, 171>>

\* OFFSET:0000:RUNLENGTH:VALUE
RleLine(offset, run, value) ==
  print_line(format_X(offset, 6) \o <<":">> \o format_X(0, 4) \o <<":">>
             \o format_X(run, 4) \o <<":">> \o format_X(value, 1))

CommentLine == print_line(<<"#", " ", "X">>)
BlankLine == print_line(<< >>)
RecordLines == {ipst_record(9, <<10, 171>>), ipst_record(16, RunOfFour)}
BadValueLines == {RleLine(9, 2, 511), RleLine(9, 0, 511)}
MalformedLines == {print_line(format_X(9, 6) \o <<":">> \o format_X(2, 4)),
                   print_line(format_X(9, 6) \o <<":">> \o format_X(0, 4) \o <<":">>
                              \o format_X(2, 4) \o <<":">> \o format_X(171, 1)
                              \o <<":">> \o format_X(0, 2))}
LinePool == RecordLines \cup {CommentLine, BlankLine} \cup BadValueLines \cup MalformedLines

TextFiles ==
  {<<print_line(h)>> \o body \o tail :
     h \in {_ips_header, BadHeader},
     body \in SeqsUpTo(LinePool, MaxLines),
     tail \in {<<print_line(_ips_footer)>>, << >>}}

BinRecords == {ips_record(9, <<10, 171>>), ips_record(16, RunOfFour)}

BinBodies == {Flatten(rs) : rs \in SeqsUpTo(BinRecords, MaxRecords)}

\* header and whole records, with no terminator
UnterminatedBinFiles == {encode(_ips_header) \o b : b \in BinBodies}

\* header and records, the last of them cut short, with no terminator
CutBinFiles ==
  {SubSeq(f, 1, Len(f) - k) : f \in {g \in UnterminatedBinFiles : Len(g) > 5 + MaxCut},
                              k \in 1..MaxCut}

BinFiles ==
  {encode(h) \o b \o encode(_ips_footer) : h \in {_ips_header, BadHeader}, b \in BinBodies}
  \cup UnterminatedBinFiles \cup CutBinFiles

\* One file, binary or text, and no patch of the caller's.
InitRead ==
  /\ data = EmptyDict
  /\ changes = EmptyDict
  /\ rom = NoRom
  /\ blocks = EmptyDict
  /\ \/ bfile \in BinFiles /\ tfile = << >>
     \/ tfile \in TextFiles /\ bfile = << >>
  /\ bogo = NoneValue
  /\ loaded = << >>
  /\ op = "init"
  /\ err = "none"
  /\ errline = 0
  /\ heap = << >>
  /\ NoStructure

NextRead ==
  \/ FromIps
  \/ FromIpst

SpecRead == InitRead /\ [][NextRead]_vars

(***************************************************************************)
(* The file formats, read record by record as the format documents them:   *)
(* what the claims about the emitted records are stated on.                *)
(***************************************************************************)
\* The records of a binary file after its 5-byte header: offset, form, data.
RECURSIVE IpsRecordsAt(_, _)
IpsRecordsAt(f, pos) ==
  IF pos + 2 > Len(f) \/ SubSeq(f, pos, pos + 2) = encode(_ips_footer) THEN << >>
  ELSE LET offset == from_bytes(SubSeq(f, pos, pos + 2))
           size == from_bytes(SubSeq(f, pos + 3, pos + 4))
       IN IF size = 0
          THEN <<[offset |-> offset, rle |-> TRUE,
                  data |-> [i \in 1..from_bytes(SubSeq(f, pos + 5, pos + 6)) |-> f[pos + 7]]]>>
               \o IpsRecordsAt(f, pos + 8)
          ELSE <<[offset |-> offset, rle |-> FALSE,
                  data |-> SubSeq(f, pos + 5, pos + 4 + size)]>>
               \o IpsRecordsAt(f, pos + 5 + size)

\* The record of a line of a text file, its fields in hexadecimal.
IpstRecord(line) ==
  LET parts == split(rstrip(line))
  IN IF Len(parts) = 4
     THEN [offset |-> int_parse(parts[1], 16).value, rle |-> TRUE,
           data |-> [i \in 1..int_parse(parts[3], 16).value |-> int_parse(parts[4], 16).value]]
     ELSE [offset |-> int_parse(parts[1], 16).value, rle |-> FALSE,
           data |-> fromhex(parts[3]).bytes]

\* The records of a text file between its header line and its footer line.
IpstRecords(f) == [i \in 1..(Len(f) - 2) |-> IpstRecord(f[i + 1])]

\* The records the last writer call emitted.
Emitted == IF op = "to_ips" THEN IpsRecordsAt(bfile, 6) ELSE IpstRecords(tfile)

\* What the last writer call wrote to its file.
Written == IF op = "to_ips" THEN bfile ELSE tfile

WriterRan == op \in {"to_ips", "to_ipst"}

AllSame(bytes) == \A i, j \in DOMAIN bytes : bytes[i] = bytes[j]

(***************************************************************************)
(* Claims                                                                  *)
(***************************************************************************)

\* C1: binary round trip.  For a patch whose changes M do not contain the
\* sentinel address, from_ips of the bytes to_ips wrote returns a patch
\* whose changes are exactly M.  (SpecIps)
C1_IpsRoundTrip ==
  (op = "from_ips" /\ bfile # << >> /\ _ips_bogo_address \notin DOMAIN changes)
    => (err = "none" /\ loaded = <<changes>>)

\* C1 witness: a round trip of a patch with an RLE block and a literal block.
C1_Witness ==
  /\ op = "from_ips" /\ bfile # << >> /\ err = "none"
  /\ _ips_bogo_address \notin DOMAIN changes
  /\ \E s, t \in DOMAIN _blockify(changes) :
       use_rle(_blockify(changes)[s]) /\ ~use_rle(_blockify(changes)[t])

\* C2: text round trip.  For a patch whose changes M do not contain the
\* sentinel address, from_ipst of the lines to_ipst wrote returns a patch
\* whose changes are exactly M.  (SpecIpst)
C2_IpstRoundTrip ==
  (op = "from_ipst" /\ tfile # << >> /\ _ips_bogo_address \notin DOMAIN changes)
    => (err = "none" /\ loaded = <<changes>>)

\* C3: sentinel handling.  When a merged block begins at the sentinel
\* address and a bogo byte b is given, the writer emits that block as a
\* record at the address before it whose data is b and then the block's
\* bytes; every other block is emitted unchanged; no record's offset field
\* is the sentinel address.  (SpecWrite)
C3_SentinelShift ==
  LET B == _blockify(changes)
      E == Emitted
  IN (WriterRan /\ bogo # NoneValue /\ _ips_bogo_address \in DOMAIN B)
       => /\ err = "none"
          /\ Len(E) = Cardinality(DOMAIN B)
          /\ \E i \in DOMAIN E :
               /\ E[i].offset = _ips_bogo_address - 1
               /\ E[i].data = <<bogo>> \o B[_ips_bogo_address]
          /\ \A s \in DOMAIN B \ {_ips_bogo_address} :
               \E i \in DOMAIN E : E[i].offset = s /\ E[i].data = B[s]
          /\ \A i \in DOMAIN E : E[i].offset # _ips_bogo_address

\* C3 witness: a text file written with a bogo byte for a patch with a block
\* at the sentinel address and another block.
C3_Witness ==
  /\ op = "to_ipst" /\ bogo # NoneValue /\ err = "none"
  /\ _ips_bogo_address \in DOMAIN _blockify(changes)
  /\ Cardinality(DOMAIN _blockify(changes)) > 1

\* C4: missing bogo byte.  When a merged block begins at the sentinel
\* address and no bogo byte is given, the writer raises PatchValueError,
\* writes nothing, and leaves the changes as they were; when no block begins
\* there, the writer succeeds with or without a bogo byte.  (SpecWrite)
C4_MissingBogoByte ==
  LET B == _blockify(changes)
  IN /\ (WriterRan /\ bogo = NoneValue /\ _ips_bogo_address \in DOMAIN B)
          => (err = "PatchValueError" /\ Written = << >> /\ changes = data)
     /\ (WriterRan /\ _ips_bogo_address \notin DOMAIN B)
          => (err = "none" /\ Written # << >>)

\* C4 witness: a writer call without a bogo byte on a patch with a block at
\* the sentinel address.
C4_Witness ==
  /\ op = "to_ips" /\ bogo = NoneValue
  /\ _ips_bogo_address \in DOMAIN _blockify(changes)
  /\ err = "PatchValueError"

\* C5: filter minimality.  A filter step keeps exactly the entries whose
\* value differs from the image's byte at their offset, with their values,
\* and adds none (also when the constructor filters); a filter step after a
\* filter step against the same image changes nothing.  (Spec)
C5_FilterExact ==
  [][/\ (op' = "filter" /\ err' = "none")
          => /\ DOMAIN changes' \subseteq DOMAIN changes
             /\ \A o \in DOMAIN changes :
                  (o \in DOMAIN changes') <=> (changes[o] # rom.byte[o])
             /\ \A o \in DOMAIN changes' : changes'[o] = changes[o]
     /\ (op' = "init_rom" /\ err' = "none")
          => /\ DOMAIN changes' \subseteq DOMAIN data
             /\ \A o \in DOMAIN data :
                  (o \in DOMAIN changes') <=> (data[o] # rom.byte[o])
             /\ \A o \in DOMAIN changes' : changes'[o] = data[o]
     /\ (op \in {"filter", "init_rom"} /\ err = "none" /\ op' = "filter")
          => (err' = "none" /\ changes' = changes)]_vars

\* C5 witness: a filter that removed an entry and kept another.
C5_Witness ==
  /\ op = "filter" /\ err = "none"
  /\ changes # data
  /\ DOMAIN changes # {}

\* C6: block merge.  The blocks _blockify returns are the maximal runs of
\* consecutive offsets of the changes, each holding the values of its
\* offsets in order; two entries share a block iff no offset between them is
\* missing; blocks neither overlap nor touch; from_blocks of the blocks
\* gives back the changes.  (Spec)
C6_BlockMerge ==
  LET B == blocks
      BlockOf(o) == {s \in DOMAIN B : s <= o /\ o < s + Len(B[s])}
  IN /\ op \in {"_blockify", "from_blocks"} =>
          /\ \A s \in DOMAIN B :
               /\ Len(B[s]) >= 1
               /\ \A i \in 1..Len(B[s]) :
                    (s + i - 1) \in DOMAIN changes /\ B[s][i] = changes[s + i - 1]
               /\ (s - 1) \notin DOMAIN changes
               /\ (s + Len(B[s])) \notin DOMAIN changes
          /\ \A o \in DOMAIN changes : Cardinality(BlockOf(o)) = 1
          /\ \A o1, o2 \in DOMAIN changes :
               o1 < o2 =>
                 ((BlockOf(o1) = BlockOf(o2))
                    <=> (Cardinality({x \in DOMAIN changes : o1 <= x /\ x <= o2})
                           = o2 - o1 + 1))
          /\ \A s, t \in DOMAIN B : s < t => s + Len(B[s]) < t
     /\ op = "from_blocks" => loaded = <<changes>>

\* C6 witness: the changes were rebuilt from two blocks or more, one of them
\* a run of two entries or more.
C6_Witness ==
  /\ op = "from_blocks"
  /\ Cardinality(DOMAIN blocks) >= 2
  /\ \E s \in DOMAIN blocks : Len(blocks[s]) >= 2

NoiseLine(line) == rstrip(line) = << >> \/ line[1] = "#"
NotNoiseLine(line) == ~NoiseLine(line)

TextHeaderOk(f) == f # << >> /\ rstrip(f[1]) = _ips_header

\* C8: noise lines.  A text file with comment lines or blank lines between
\* its header and its footer loads, without error, to the changes that the
\* file without those lines loads to.  (SpecRead)
C8_NoiseSkipped ==
  (op = "from_ipst" /\ TextHeaderOk(tfile)
     /\ \E k \in 2..Len(tfile) : NoiseLine(tfile[k]))
    => LET r == from_ipst(SelectSeq(tfile, NotNoiseLine))
       IN r.err = "none" => (err = "none" /\ loaded = <<r.changes>>)

\* C9: error reporting of the text reader.  When the first line that is not
\* a comment or a well-formed record is an RLE record whose value exceeds
\* 0xFF (with any run length), from_ipst raises PatchValueError; when it is
\* a line of the wrong shape, from_ipst raises PatchFormatError; the line
\* number reported is the position of that line in the file.  (SpecRead)
C9_ErrorReporting ==
  \A k \in 2..Len(tfile) :
    (/\ op = "from_ipst" /\ TextHeaderOk(tfile)
     /\ tfile[k] \in BadValueLines \cup MalformedLines
     /\ \A j \in 2..(k - 1) : tfile[j] \in RecordLines \cup {CommentLine})
      => /\ err = IF tfile[k] \in BadValueLines THEN "PatchValueError"
                  ELSE "PatchFormatError"
         /\ errline = k

\* C10: bad header or missing terminator.  Loading a file whose header is
\* not PATCH, or whose records are not followed by the EOF terminator,
\* raises PatchFormatError and returns no Patch.  (SpecRead)
C10_BadHeaderOrFooter ==
  /\ (op = "from_ips" /\ bfile # << >>
        /\ (\/ decode(read(bfile, 1, 5)) # _ips_header
            \/ bfile \in UnterminatedBinFiles \cup CutBinFiles))
       => (err = "PatchFormatError" /\ loaded = << >>)
  /\ (op = "from_ipst" /\ tfile # << >>
        /\ (\/ ~TextHeaderOk(tfile)
            \/ \A k \in 2..Len(tfile) : tfile[k] \in RecordLines))
       => (err = "PatchFormatError" /\ loaded = << >>)

(***************************************************************************)
(* Structures, tables and fields (romlib/structures.py, romlib/types.py,   *)
(* romlib/field.py).  A buffer is a sequence of bits; a bit view is the    *)
(* range lo..hi of bit positions of a buffer, counted from 0, hi excluded. *)
(* The module romlib.io (BitArrayView, Unit) is described by the           *)
(* specification only: a slice is relative to the view's own start and     *)
(* must lie inside the view, a typed read decodes the bits of the view, a  *)
(* typed write changes the bits of the view and no other bit.              *)
(***************************************************************************)
Unit_bits == 1
Unit_bytes == 8

Exp2(n) == IF n <= 0 THEN 1 ELSE 2 ^ n

\* len(view)
view_len(v) == v.hi - v.lo

\* The view of a whole buffer.
root(buf) == [lo |-> 0, hi |-> Len(buf)]

\* view[a:b]; None is NoneValue.
Slice(v, a, b) ==
  LET start == IF a = NoneValue THEN 0 ELSE a
      end == IF b = NoneValue THEN view_len(v) ELSE b
  IN IF 0 <= start /\ start <= end /\ end <= view_len(v)
     THEN [err |-> "none", lo |-> v.lo + start, hi |-> v.lo + end]
     ELSE [err |-> "OutOfRange", lo |-> v.lo, hi |-> v.lo]

\* view.uint: the bits of the view read as an unsigned integer, first bit
\* most significant.
RECURSIVE uint_get(_, _, _)
uint_get(buf, lo, hi) ==
  IF hi <= lo THEN 0 ELSE 2 * uint_get(buf, lo, hi - 1) + buf[hi]

\* view.uint = n: the bits of the view replaced by the digits of n; a value
\* the view cannot represent is refused and no bit changes.
uint_set(buf, v, n) ==
  IF n < 0 \/ n >= Exp2(view_len(v)) \/ view_len(v) = 0
  THEN [err |-> "ValueError", buf |-> buf]
  ELSE [err |-> "none",
        buf |-> [k \in 1..Len(buf) |->
                   IF v.lo < k /\ k <= v.hi
                   THEN (n \div Exp2(v.hi - k)) % 2
                   ELSE buf[k]]]

(***************************************************************************)
(* Field (types.py).  An offset or a size is None, the integer n or the    *)
(* string s, a record [t, n, s] whose t is the name of its Python type,    *)
(* after the three types Structure._subview tells apart.                   *)
(***************************************************************************)
None == [t |-> "NoneType", n |-> 0, s |-> ""]
int(n) == [t |-> "int", n |-> n, s |-> ""]
str(s) == [t |-> "str", n |-> 0, s |-> s]

\* Field(id, name, type, unit, offset, size, arg, order)
Field(id, name, type, unit, offset, size, arg, order) ==
  [id |-> id, name |-> IF name = "" THEN id ELSE name, type |-> type,
   unit |-> unit, offset |-> offset, size |-> size, arg |-> arg, order |-> order]

\* Field._get_int
_get_int(field, buf, v) ==
  uint_get(buf, v.lo, v.hi) + (IF field.arg = NoneValue THEN 0 ELSE field.arg)

\* Field._set_int
_set_int(field, buf, v, n) ==
  uint_set(buf, v, n - (IF field.arg = NoneValue THEN 0 ELSE field.arg))

\* Field.read
read_field(field, buf, v) ==
  IF field.size.t = "str" \/ (field.size.t = "int" /\ field.size.n # 0
                               /\ view_len(v) # field.size.n * field.unit)
  THEN [err |-> "AssertionError", val |-> 0]
  ELSE [err |-> "none", val |-> _get_int(field, buf, v)]

(***************************************************************************)
(* Structure (structures.py).  A structure is the field list of its type,  *)
(* the view it is bound to and the buffer under that view.  What an access *)
(* returns is [err, kind, val, type, lo, hi]: the integer val, or the      *)
(* structure of that type bound to lo..hi.                                 *)
(***************************************************************************)
Fail(e) == [err |-> e, kind |-> "none", val |-> 0, type |-> "", lo |-> 0, hi |-> 0]

\* Structure._fbid: the position of the first field with that id, 0 for
\* AttributeError.
_fbid(fields, fid) ==
  LET S == {k \in 1..Len(fields) : fields[k].id = fid}
  IN IF S = {} THEN 0 ELSE SetMin(S)

\* Structure._fbnm: the position of the first field with that name, 0 for
\* KeyError.
_fbnm(fields, fnm) ==
  LET S == {k \in 1..Len(fields) : fields[k].name = fnm}
  IN IF S = {} THEN 0 ELSE SetMin(S)

\* Bind(x, F) is F(x), with x computed once.
Bind(x, F(_)) == F(x)

RECURSIVE _subview(_, _, _, _, _)
RECURSIVE _get(_, _, _, _, _)

\* Structure.__getitem__
getitem(reg, fields, v, buf, key) ==
  Bind(_fbnm(fields, key), LAMBDA k :
    IF k = 0 THEN Fail("KeyError") ELSE _get(reg, fields, v, buf, fields[k]))

\* The mapper of Structure._subview applied to an offset or a size.
mapper(reg, fields, v, buf, field, x) ==
  IF x.t = "NoneType" THEN [err |-> "none", val |-> NoneValue]
  ELSE IF x.t = "int" THEN [err |-> "none", val |-> x.n * field.unit]
  ELSE Bind(getitem(reg, fields, v, buf, x.s), LAMBDA r :
         IF r.err # "none" THEN [err |-> r.err, val |-> NoneValue]
         ELSE IF r.kind # "int" THEN [err |-> "TypeError", val |-> NoneValue]
         ELSE [err |-> "none", val |-> r.val * field.unit])

\* Structure._subview, for a field without an origin.
_subview(reg, fields, v, buf, field) ==
  Bind(mapper(reg, fields, v, buf, field, field.offset), LAMBDA o :
  Bind(mapper(reg, fields, v, buf, field, field.size), LAMBDA s :
    IF o.err # "none" THEN [err |-> o.err, lo |-> v.lo, hi |-> v.lo]
    ELSE IF s.err # "none" THEN [err |-> s.err, lo |-> v.lo, hi |-> v.lo]
    ELSE Slice(v, o.val, IF o.val = NoneValue \/ o.val = 0 THEN s.val
                         ELSE IF s.val # NoneValue /\ s.val # 0 THEN o.val + s.val
                         ELSE NoneValue)))

\* Structure._get
_get(reg, fields, v, buf, field) ==
  Bind(_subview(reg, fields, v, buf, field), LAMBDA subview :
    IF subview.err # "none" THEN Fail(subview.err)
    ELSE IF field.type \in DOMAIN reg
    THEN [err |-> "none", kind |-> "struct", val |-> 0, type |-> field.type,
          lo |-> subview.lo, hi |-> subview.hi]
    ELSE Bind(read_field(field, buf, subview), LAMBDA r :
           IF r.err # "none" THEN Fail(r.err)
           ELSE [err |-> "none", kind |-> "int", val |-> r.val, type |-> "",
                 lo |-> 0, hi |-> 0]))

\* Structure.__getattr__
getattr(reg, fields, v, buf, key) ==
  Bind(_fbid(fields, key), LAMBDA k :
    IF k = 0 THEN Fail("AttributeError") ELSE _get(reg, fields, v, buf, fields[k]))

\* A value handed to an assignment: an integer, or a structure of a
\* registered type bound to lo..hi of the buffer vbuf.
IntValue(n) == [err |-> "none", kind |-> "int", val |-> n, type |-> "", lo |-> 0, hi |-> 0]
StructValue(type, v) ==
  [err |-> "none", kind |-> "struct", val |-> 0, type |-> type, lo |-> v.lo, hi |-> v.hi]

\* Structure._set: [err, buf].  For a field of a registered type the method
\* reads self._get_struct, which no class defines, so that the read goes
\* through Structure.__getattr__.
_set(reg, fields, v, buf, field, val) ==
  IF field.type \in DOMAIN reg
  THEN Bind(getattr(reg, fields, v, buf, "_get_struct"), LAMBDA g :
         [err |-> IF g.err # "none" THEN g.err ELSE "TypeError", buf |-> buf])
  ELSE Bind(_subview(reg, fields, v, buf, field), LAMBDA subview :
         IF subview.err # "none" THEN [err |-> subview.err, buf |-> buf]
         ELSE IF val.kind # "int" THEN [err |-> "TypeError", buf |-> buf]
         ELSE _set_int(field, buf, subview, val.val))

\* Structure.__setitem__: [err, buf, plain]
setitem(reg, fields, v, buf, key, val) ==
  Bind(_fbnm(fields, key), LAMBDA k :
    IF k = 0 THEN [err |-> "KeyError", buf |-> buf, plain |-> FALSE]
    ELSE Bind(_set(reg, fields, v, buf, fields[k], val), LAMBDA r :
           [err |-> r.err, buf |-> r.buf, plain |-> FALSE]))

\* Structure.__setattr__: [err, buf, plain], plain telling whether the
\* value ended as a plain attribute of the object.
setattr(reg, fields, v, buf, key, val) ==
  Bind(_fbid(fields, key), LAMBDA k :
  Bind(IF k = 0 THEN [err |-> "AttributeError", buf |-> buf]
       ELSE _set(reg, fields, v, buf, fields[k], val), LAMBDA r :
    IF r.err = "AttributeError"
    THEN [err |-> "none", buf |-> buf, plain |-> TRUE]
    ELSE [err |-> r.err, buf |-> r.buf, plain |-> FALSE]))

\* Structure.copy(self, other) from field k of self on: the buffer of other
\* afterwards.  self and other lie in different buffers.
RECURSIVE copy_loop(_, _, _, _, _, _, _, _)
copy_loop(reg, sfields, sv, sbuf, ofields, ov, obuf, k) ==
  IF k > Len(sfields) THEN [err |-> "none", buf |-> obuf]
  ELSE Bind(getitem(reg, sfields, sv, sbuf, sfields[k].name), LAMBDA val :
         IF val.err # "none" THEN [err |-> val.err, buf |-> obuf]
         ELSE Bind(IF val.kind = "struct"
                   THEN Bind(getitem(reg, ofields, ov, obuf, sfields[k].name), LAMBDA o :
                          IF o.err # "none" THEN [err |-> o.err, buf |-> obuf]
                          ELSE IF o.kind # "struct" THEN [err |-> "TypeError", buf |-> obuf]
                          ELSE copy_loop(reg, reg[val.type], val, sbuf,
                                         reg[o.type], o, obuf, 1))
                   ELSE Bind(setitem(reg, ofields, ov, obuf, sfields[k].name, val), LAMBDA w :
                          [err |-> w.err, buf |-> w.buf]), LAMBDA r :
                IF r.err # "none" THEN r
                ELSE copy_loop(reg, sfields, sv, sbuf, ofields, ov, r.buf, k + 1)))

copy(reg, sfields, sv, sbuf, ofields, ov, obuf) ==
  copy_loop(reg, sfields, sv, sbuf, ofields, ov, obuf, 1)

(***************************************************************************)
(* State machine of one structure.  The type Main has the integer fields   *)
(* a and b and the field n of the registered type Inner; the structure     *)
(* under test is a Main bound to the whole buffer view.  The structure     *)
(* handed in as a value is an Inner bound to the whole buffer vbuf.        *)
(***************************************************************************)
BufBytes == 3                    \* bytes of the buffer a structure is bound to

\* The bits of a sequence of bytes, first bit most significant.
bits(bytes) ==
  [k \in 1..(8 * Len(bytes)) |-> (bytes[((k - 1) \div 8) + 1] \div Exp2(7 - ((k - 1) % 8))) % 2]

Buffers == {bits([k \in 1..BufBytes |-> 0]), bits([k \in 1..BufBytes |-> k])}

FieldsA ==
  {Field("a", "A", "uint", u, o, int(IF u = Unit_bytes THEN 1 ELSE 4), NoneValue, 0) :
     u \in {Unit_bits, Unit_bytes}, o \in {None, int(0), int(1)}}

FieldsB ==
  {Field("b", "B", "uint", u, o, int(IF u = Unit_bytes THEN 1 ELSE 4), NoneValue, 0) :
     u \in {Unit_bits, Unit_bytes}, o \in {None, int(0), int(1), str("A")}}

FieldN == Field("n", "N", "Inner", Unit_bytes, int(2), int(1), NoneValue, 0)

InnerFields ==
  <<Field("x", "X", "uint", Unit_bits, None, int(4), NoneValue, 0),
    Field("y", "Y", "uint", Unit_bits, int(4), int(4), NoneValue, 0)>>

IntValues == {IntValue(2), IntValue(16)}

\* No patch and no file.
NoPatch ==
  /\ data = EmptyDict
  /\ changes = EmptyDict
  /\ rom = NoRom
  /\ blocks = EmptyDict
  /\ bfile = << >>
  /\ tfile = << >>
  /\ bogo = NoneValue
  /\ loaded = << >>
  /\ errline = 0
  /\ heap = << >>

NoCall == [key |-> "", val |-> IntValue(0), res |-> Fail("none")]

InitStruct ==
  /\ NoPatch
  /\ \E fa \in FieldsA, fb \in FieldsB :
       registry = [t \in {"Main", "Inner"} |->
                     IF t = "Main" THEN <<fa, fb, FieldN>> ELSE InnerFields]
  /\ view \in Buffers
  /\ vbuf = bits(<<53>>)
  /\ attrs = << >>
  /\ table = << >>
  /\ ret = NoCall
  /\ op = "init"
  /\ err = "none"

\* self._subview(field) for the field at position k
Subview(k) ==
  /\ \E r \in {_subview(registry, registry["Main"], root(view), view, registry["Main"][k])} :
        /\ ret' = [key |-> registry["Main"][k].id, val |-> IntValue(0),
                   res |-> [err |-> r.err, kind |-> "view", val |-> 0, type |-> "",
                            lo |-> r.lo, hi |-> r.hi]]
        /\ err' = r.err
  /\ op' = "_subview"
  /\ UNCHANGED <<registry, view, vbuf, attrs, table>>
  /\ UNCHANGED patchvars

\* self.key: a plain attribute of the object hides the field of that id.
GetAttr(key) ==
  /\ \E r \in {IF key \in DOMAIN attrs THEN attrs[key]
                ELSE getattr(registry, registry["Main"], root(view), view, key)} :
        /\ ret' = [key |-> key, val |-> IntValue(0), res |-> r]
        /\ err' = r.err
  /\ op' = "getattr"
  /\ UNCHANGED <<registry, view, vbuf, attrs, table>>
  /\ UNCHANGED patchvars

\* self[key]
GetItem(key) ==
  /\ \E r \in {getitem(registry, registry["Main"], root(view), view, key)} :
        /\ ret' = [key |-> key, val |-> IntValue(0), res |-> r]
        /\ err' = r.err
  /\ op' = "getitem"
  /\ UNCHANGED <<registry, view, vbuf, attrs, table>>
  /\ UNCHANGED patchvars

\* self.key = val
SetAttr(key, val) ==
  /\ \E r \in {setattr(registry, registry["Main"], root(view), view, key, val)} :
        /\ view' = r.buf
        /\ attrs' = IF r.plain THEN Put(attrs, key, val) ELSE attrs
        /\ err' = r.err
  /\ ret' = [key |-> key, val |-> val, res |-> Fail("none")]
  /\ op' = "setattr"
  /\ UNCHANGED <<registry, vbuf, table>>
  /\ UNCHANGED patchvars

\* self[key] = val
SetItem(key, val) ==
  /\ \E r \in {setitem(registry, registry["Main"], root(view), view, key, val)} :
        /\ view' = r.buf
        /\ err' = r.err
  /\ ret' = [key |-> key, val |-> val, res |-> Fail("none")]
  /\ op' = "setitem"
  /\ UNCHANGED <<registry, vbuf, attrs, table>>
  /\ UNCHANGED patchvars

NextStruct ==
  \/ \E k \in 1..2 : Subview(k)
  \/ \E key \in {"a", "b", "n"} : GetAttr(key)
  \/ \E key \in {"A", "B", "N"} : GetItem(key)
  \/ \E key \in {"a", "b"}, val \in IntValues : SetAttr(key, val)
  \/ \E key \in {"A", "B"}, val \in IntValues : SetItem(key, val)
  \/ SetAttr("n", StructValue("Inner", root(vbuf)))
  \/ SetItem("N", StructValue("Inner", root(vbuf)))

SpecStruct == InitStruct /\ [][NextStruct]_vars

(***************************************************************************)
(* Claims about structures                                                 *)
(***************************************************************************)
\* The bit at which field k starts as the field list declares it: at
\* offset * unit for an integer offset, at the current value of the named
\* field times unit for a name, and at the end of field k - 1 (at 0 for the
\* first field) for an unset offset.
RECURSIVE DeclaredStart(_, _, _, _)
DeclaredStart(reg, fields, buf, k) ==
  IF fields[k].offset.t = "int" THEN fields[k].offset.n * fields[k].unit
  ELSE IF fields[k].offset.t = "str"
  THEN getitem(reg, fields, root(buf), buf, fields[k].offset.s).val * fields[k].unit
  ELSE IF k = 1 THEN 0
  ELSE DeclaredStart(reg, fields, buf, k - 1) + fields[k - 1].size.n * fields[k - 1].unit

DeclaredEnd(reg, fields, buf, k) ==
  DeclaredStart(reg, fields, buf, k) + fields[k].size.n * fields[k].unit

\* C11: implicit offset resolution.  The sub-view a structure resolves for
\* a field starts at offset * unit for an integer offset, at the named
\* field's current value * unit for a name, and at the end of the
\* immediately preceding field (0 for the first field) for an unset offset,
\* and spans size * unit bits, whenever that range lies inside the
\* structure's view.  (SpecStruct)
C11_ImplicitOffset ==
  op = "_subview" =>
    \E k \in {_fbid(registry["Main"], ret.key)} :
      DeclaredEnd(registry, registry["Main"], view, k) <= Len(view)
        => /\ ret.res.err = "none"
           /\ ret.res.lo = DeclaredStart(registry, registry["Main"], view, k)
           /\ ret.res.hi = DeclaredEnd(registry, registry["Main"], view, k)

\* The position of the field an assignment names: by id for an attribute
\* assignment, by name for an item assignment.
Assigned(fields, o, key) ==
  IF o = "setattr" THEN _fbid(fields, key) ELSE _fbnm(fields, key)

\* Fields a and b of the list have ranges fixed by the declaration (no
\* offset taken from another field's value) and the ranges do not overlap.
Disjoint(reg, fields, buf, a, b) ==
  /\ fields[a].offset.t # "str"
  /\ fields[b].offset.t # "str"
  /\ \/ DeclaredEnd(reg, fields, buf, a) <= DeclaredStart(reg, fields, buf, b)
     \/ DeclaredEnd(reg, fields, buf, b) <= DeclaredStart(reg, fields, buf, a)

\* C12: structure field independence.  Assigning an integer to a field a,
\* by id or by name, leaves unchanged the decoded value of every field b
\* whose declared bit range does not overlap a's, and every bit of the
\* buffer outside a's declared range.  (SpecStruct)
C12_FieldIndependence ==
  [][(op' \in {"setattr", "setitem"} /\ ret'.val.kind = "int")
       => \E a \in {Assigned(registry["Main"], op', ret'.key)} :
            /\ \A k \in 1..Len(view) :
                 (registry["Main"][a].offset.t # "str"
                  /\ (k <= DeclaredStart(registry, registry["Main"], view, a)
                      \/ k > DeclaredEnd(registry, registry["Main"], view, a)))
                   => view'[k] = view[k]
            /\ \A b \in {1, 2} \ {a} :
                 Disjoint(registry, registry["Main"], view, a, b)
                   => getitem(registry, registry["Main"], root(view'), view',
                              registry["Main"][b].name)
                      = getitem(registry, registry["Main"], root(view), view,
                                registry["Main"][b].name)]_vars

\* C13: nested structure assignment.  Assigning a structure to the field n
\* of a registered structure type, by id or by name, completes without
\* error; afterwards every field read through the destination equals the
\* source's field, the source's buffer is unchanged, no plain attribute has
\* been created and n is still the structure bound to the same bits of the
\* view.  (SpecStruct)
C13_NestedAssignment ==
  [][(op' \in {"setattr", "setitem"} /\ ret'.val.kind = "struct")
       => /\ err' = "none"
          /\ vbuf' = vbuf
          /\ attrs' = attrs
          /\ getitem(registry, registry["Main"], root(view'), view', "N")
             = getitem(registry, registry["Main"], root(view), view, "N")
          /\ \A k \in 1..Len(registry["Inner"]) :
               getitem(registry, registry["Inner"],
                       getitem(registry, registry["Main"], root(view'), view', "N"),
                       view', registry["Inner"][k].name)
               = getitem(registry, registry["Inner"], ret'.val, vbuf,
                         registry["Inner"][k].name)]_vars

(***************************************************************************)
(* Table and Index (structures.py).  An index is the arithmetic            *)
(* Index(offset, count, stride) or a list of offsets: a record             *)
(* [kind, offset, count, stride, list].  A table is [typename, index,      *)
(* size, units], bound to the whole buffer view.                           *)
(***************************************************************************)
Index(offset, count, stride) ==
  [kind |-> "Index", offset |-> offset, count |-> count, stride |-> stride, list |-> << >>]

ListIndex(list) ==
  [kind |-> "list", offset |-> 0, count |-> 0, stride |-> 0, list |-> list]

\* Index.__len__, list.__len__
index_len(ix) == IF ix.kind = "Index" THEN ix.count ELSE Len(ix.list)

\* Index.__getitem__ and list.__getitem__ for an integer i: [err, val]
index_get(ix, i) ==
  IF ix.kind = "Index"
  THEN IF i >= ix.count THEN [err |-> "IndexError", val |-> 0]
       ELSE [err |-> "none", val |-> ix.offset + i * ix.stride]
  ELSE IF i >= Len(ix.list) \/ i < -Len(ix.list) THEN [err |-> "IndexError", val |-> 0]
       ELSE [err |-> "none",
             val |-> IF i < 0 THEN ix.list[Len(ix.list) + i + 1] ELSE ix.list[i + 1]]

\* Structure.size: the sum of size * unit over the first k fields.
RECURSIVE struct_size(_, _)
struct_size(fields, k) ==
  IF k = 0 THEN 0
  ELSE struct_size(fields, k - 1) + fields[k].size.n * fields[k].unit

\* Table._isz_bits: [err, val]
_isz_bits(reg, t) ==
  IF t.size # NoneValue /\ t.size # 0 THEN [err |-> "none", val |-> t.size * t.units]
  ELSE IF t.typename \in DOMAIN reg
  THEN [err |-> "none", val |-> struct_size(reg[t.typename], Len(reg[t.typename]))]
  ELSE IF t.index.kind = "Index" THEN [err |-> "none", val |-> t.index.stride * t.units]
  ELSE [err |-> "ValueError", val |-> 0]

\* Table._subview: [err, lo, hi]
Table_subview(reg, t, buf, i) ==
  Bind(index_get(t.index, i), LAMBDA start :
    IF start.err # "none" THEN [err |-> start.err, lo |-> 0, hi |-> 0]
    ELSE Bind(_isz_bits(reg, t), LAMBDA isz :
           IF isz.err # "none" THEN [err |-> isz.err, lo |-> 0, hi |-> 0]
           ELSE Slice(root(buf), start.val * t.units, start.val * t.units + isz.val)))

\* Table.__getitem__ for an integer i
Table_getitem(reg, t, buf, i) ==
  IF i >= index_len(t.index) THEN Fail("IndexError")
  ELSE Bind(Table_subview(reg, t, buf, i), LAMBDA subview :
         IF subview.err # "none" THEN Fail(subview.err)
         ELSE IF t.typename \in DOMAIN reg
         THEN StructValue(t.typename, subview)
         ELSE IntValue(uint_get(buf, subview.lo, subview.hi)))

\* The last two statements of Table.__setitem__, which write one element:
\* [err, buf, vbuf].  For a table of structures they are
\* self[i].copy(v), which copies the element into v.
Table_setone(reg, t, buf, vb, i, v) ==
  IF t.typename \in DOMAIN reg
  THEN Bind(Table_getitem(reg, t, buf, i), LAMBDA e :
         IF e.err # "none" THEN [err |-> e.err, buf |-> buf, vbuf |-> vb]
         ELSE IF v.kind # "struct" THEN [err |-> "TypeError", buf |-> buf, vbuf |-> vb]
         ELSE Bind(copy(reg, reg[e.type], e, buf, reg[v.type], v, vb), LAMBDA c :
                [err |-> c.err, buf |-> buf, vbuf |-> c.buf]))
  ELSE Bind(Table_subview(reg, t, buf, i), LAMBDA subview :
         IF subview.err # "none" THEN [err |-> subview.err, buf |-> buf, vbuf |-> vb]
         ELSE IF v.kind # "int" THEN [err |-> "TypeError", buf |-> buf, vbuf |-> vb]
         ELSE Bind(uint_set(buf, subview, v.val), LAMBDA w :
                [err |-> w.err, buf |-> w.buf, vbuf |-> vb]))

\* list(range(start, stop, step)) for a step above 0
RECURSIVE range(_, _, _)
range(start, stop, step) ==
  IF start >= stop THEN << >> ELSE <<start>> \o range(start + step, stop, step)

\* The loop of Table.__setitem__ over zip(indices, v), from pair k on.
RECURSIVE setitem_loop(_, _, _, _, _, _, _)
setitem_loop(reg, t, buf, vb, indices, vs, k) ==
  IF k > Len(indices) \/ k > Len(vs) THEN [err |-> "none", buf |-> buf, vbuf |-> vb]
  ELSE Bind(Table_setone(reg, t, buf, vb, indices[k], vs[k]), LAMBDA r :
         IF r.err # "none" THEN r
         ELSE setitem_loop(reg, t, r.buf, r.vbuf, indices, vs, k + 1))

\* Table.__setitem__ for a slice [start, stop, step] and a sequence vs.
\* After the loop the method does not return: it goes on to the statements
\* that write one element, with i and v as the loop left them.
Table_setslice(reg, t, buf, vb, sl, vs) ==
  IF sl.start = NoneValue \/ sl.stop = NoneValue \/ sl.step = NoneValue
  THEN [err |-> "TypeError", buf |-> buf, vbuf |-> vb]
  ELSE IF Len(range(sl.start, sl.stop, sl.step)) # Len(vs)
  THEN [err |-> "ValueError", buf |-> buf, vbuf |-> vb]
  ELSE Bind(setitem_loop(reg, t, buf, vb, range(sl.start, sl.stop, sl.step), vs, 1), LAMBDA r :
         IF r.err # "none" THEN r
         ELSE IF vs = << >>
         THEN [err |-> IF t.typename \in DOMAIN reg THEN "NameError" ELSE "TypeError",
               buf |-> r.buf, vbuf |-> r.vbuf]
         ELSE Table_setone(reg, t, r.buf, r.vbuf,
                           range(sl.start, sl.stop, sl.step)[Len(vs)], vs[Len(vs)]))

(***************************************************************************)
(* State machine of one table.  The table is bound to the whole buffer     *)
(* view; its elements are unsigned integers or structures of the           *)
(* registered type Inner.  The values handed in are integers, or Inner     *)
(* structures bound to the successive bytes of the buffer vbuf.            *)
(***************************************************************************)
MaxSeq == 2                      \* most values of a sequence assigned to a slice

Tables ==
  {[typename |-> ty, index |-> ix, size |-> sz, units |-> Unit_bytes] :
     ty \in {"uint", "Inner"},
     ix \in {Index(0, BufBytes, 1), Index(1, BufBytes - 1, 1), ListIndex(<<0, 2>>)},
     sz \in {NoneValue, 1}}

\* The j-th value handed to a table of that element type.
TableValue(ty, j) ==
  IF ty = "Inner" THEN StructValue("Inner", [lo |-> 8 * (j - 1), hi |-> 8 * j])
  ELSE IntValue(j)

\* slice(start, stop, step)
Slices ==
  {[start |-> a, stop |-> b, step |-> c] : a \in {0, 1}, b \in {1, 3}, c \in {NoneValue, 1, 2}}

NoSlice == [start |-> NoneValue, stop |-> NoneValue, step |-> NoneValue]

InitTable ==
  /\ NoPatch
  /\ registry = [ty \in {"Inner"} |-> InnerFields]
  /\ table \in Tables
  /\ view \in Buffers
  /\ vbuf = bits([j \in 1..MaxSeq |-> IF j = 1 THEN 53 ELSE 17 + j])
  /\ attrs = << >>
  /\ ret = [i |-> 0, sl |-> NoSlice, vs |-> << >>, res |-> Fail("none")]
  /\ op = "init"
  /\ err = "none"

\* len(table)
TableLen ==
  /\ ret' = [i |-> 0, sl |-> NoSlice, vs |-> << >>, res |-> IntValue(index_len(table.index))]
  /\ op' = "len"
  /\ err' = "none"
  /\ UNCHANGED <<registry, view, vbuf, attrs, table>>
  /\ UNCHANGED patchvars

\* table[i]
TableGet(i) ==
  /\ \E r \in {Table_getitem(registry, table, view, i)} :
        /\ ret' = [i |-> i, sl |-> NoSlice, vs |-> << >>, res |-> r]
        /\ err' = r.err
  /\ op' = "get"
  /\ UNCHANGED <<registry, view, vbuf, attrs, table>>
  /\ UNCHANGED patchvars

\* table[i] = v
TableSet(i, v) ==
  /\ \E r \in {Table_setone(registry, table, view, vbuf, i, v)} :
        /\ view' = r.buf
        /\ vbuf' = r.vbuf
        /\ err' = r.err
  /\ ret' = [i |-> i, sl |-> NoSlice, vs |-> <<v>>, res |-> Fail("none")]
  /\ op' = "set"
  /\ UNCHANGED <<registry, attrs, table>>
  /\ UNCHANGED patchvars

\* table[start:stop:step] = vs
TableSetSlice(sl, vs) ==
  /\ \E r \in {Table_setslice(registry, table, view, vbuf, sl, vs)} :
        /\ view' = r.buf
        /\ vbuf' = r.vbuf
        /\ err' = r.err
  /\ ret' = [i |-> 0, sl |-> sl, vs |-> vs, res |-> Fail("none")]
  /\ op' = "setslice"
  /\ UNCHANGED <<registry, attrs, table>>
  /\ UNCHANGED patchvars

NextTable ==
  \/ TableLen
  \/ \E i \in (-2)..BufBytes : TableGet(i)
  \/ \E i \in (-1)..BufBytes, j \in 1..MaxSeq : TableSet(i, TableValue(table.typename, j))
  \/ \E sl \in Slices, n \in 0..MaxSeq :
       TableSetSlice(sl, [j \in 1..n |-> TableValue(table.typename, j)])

SpecTable == InitTable /\ [][NextTable]_vars

(***************************************************************************)
(* Claims about tables                                                     *)
(***************************************************************************)
\* Element i of the table decodes to the value v: field by field for a
\* table of structures, as the typed value for a table of integers.
Decodes(reg, t, buf, i, v, vb) ==
  IF t.typename \in DOMAIN reg
  THEN \A k \in 1..Len(reg[t.typename]) :
         getitem(reg, reg[t.typename], Table_getitem(reg, t, buf, i), buf,
                 reg[t.typename][k].name)
         = getitem(reg, reg[v.type], v, vb, reg[t.typename][k].name)
  ELSE Table_getitem(reg, t, buf, i) = v

\* The bits of element i, as positions of the sequence of bits.
ElementBits(reg, t, buf, i) ==
  {b \in 1..Len(buf) : /\ Table_subview(reg, t, buf, i).lo < b
                       /\ b <= Table_subview(reg, t, buf, i).hi}

\* C14: table set mirrors get.  For an index 0 <= i < length of a table
\* whose element size is known, set(i, v) completes without error, a
\* following get(i) decodes to v, v is not modified, and the bits of the
\* view outside element i (those of every other element that does not
\* overlap it) are unchanged.  (SpecTable)
C14_TableSetGet ==
  [][(/\ op' = "set"
      /\ 0 <= ret'.i /\ ret'.i < index_len(table.index)
      /\ _isz_bits(registry, table).err = "none")
       => /\ err' = "none"
          /\ Decodes(registry, table, view', ret'.i, ret'.vs[1], vbuf)
          /\ vbuf' = vbuf
          /\ \A b \in 1..Len(view) \ ElementBits(registry, table, view, ret'.i) :
               view'[b] = view[b]]_vars

\* The indices a slice stands for, a step left out being 1.
SliceIndices(sl) == range(sl.start, sl.stop, IF sl.step = NoneValue THEN 1 ELSE sl.step)

\* C15: table slice assignment.  For a slice whose indices lie inside the
\* table, assigning a sequence of a different length fails with ValueError
\* and leaves the view unchanged; assigning a sequence of the same length
\* completes without error, sets the elements at the slice's indices to the
\* corresponding values and writes no other bit.  (SpecTable)
C15_SliceAssignment ==
  [][(/\ op' = "setslice"
      /\ _isz_bits(registry, table).err = "none"
      /\ \A i \in Range(SliceIndices(ret'.sl)) : i < index_len(table.index))
       => \E idx \in {SliceIndices(ret'.sl)} :
            IF Len(idx) # Len(ret'.vs)
            THEN err' = "ValueError" /\ view' = view /\ vbuf' = vbuf
            ELSE /\ err' = "none"
                 /\ vbuf' = vbuf
                 /\ \A k \in 1..Len(idx) :
                      Decodes(registry, table, view', idx[k], ret'.vs[k], vbuf)
                 /\ \A b \in 1..Len(view) :
                      (\A k \in 1..Len(idx) :
                         b \notin ElementBits(registry, table, view, idx[k]))
                        => view'[b] = view[b]]_vars

\* The offset, in units, of element i of the table, 0 <= i < length.
IndexAt(ix, i) == IF ix.kind = "Index" THEN ix.offset + i * ix.stride ELSE ix.list[i + 1]

\* C16: table index bounds.  len(table) is the length of the index; for a
\* table whose element size is known, get(i) fails with an out-of-range
\* error for every integer i outside 0 <= i < length, negative i included,
\* and for i inside returns the element at index[i] * unit ..
\* index[i] * unit + element size, index[i] being offset + i * stride for
\* an arithmetic Index.  (SpecTable)
C16_TableBounds ==
  /\ op = "len" => ret.res.val = index_len(table.index)
  /\ (op = "get" /\ _isz_bits(registry, table).err = "none")
       => IF ret.i < 0 \/ ret.i >= index_len(table.index)
          THEN err \in {"IndexError", "OutOfRange"}
          ELSE \E lo \in {IndexAt(table.index, ret.i) * table.units} :
                 /\ err = "none"
                 /\ IF table.typename \in DOMAIN registry
                    THEN /\ ret.res.lo = lo
                         /\ ret.res.hi = lo + _isz_bits(registry, table).val
                    ELSE ret.res.val
                         = uint_get(view, lo, lo + _isz_bits(registry, table).val)

(***************************************************************************)
(* String fields and Field.parse (types.py), String.string (field.py).     *)
(* A string is the sequence of its characters; the encoding is ASCII, one  *)
(* byte for a character.  The view of a field of n bytes is the whole      *)
(* buffer view of 8 * n bits.                                              *)
(***************************************************************************)
\* view.bytes: the bytes under a view of whole bytes.
view_bytes(buf) == [k \in 1..(Len(buf) \div 8) |-> uint_get(buf, 8 * (k - 1), 8 * k)]

\* view.bytes = bs: the bytes under the view replaced; a sequence of
\* another length than the view is refused and no bit changes.
bytes_set(buf, bs) ==
  IF 8 * Len(bs) # Len(buf) THEN [err |-> "ValueError", buf |-> buf]
  ELSE [err |-> "none", buf |-> bits(bs)]

\* Field._get_str
_get_str(buf) == decode(view_bytes(buf))

\* Field._set_str: [err, buf].  BytesIO(old).write(new) overwrites the
\* first bytes of old and keeps the rest.
_set_str(buf, value) ==
  IF value = _get_str(buf) THEN [err |-> "none", buf |-> buf]
  ELSE bytes_set(buf, encode(value)
                      \o SubSeq(view_bytes(buf), Len(value) + 1, Len(buf) \div 8))

\* The setter of String.string (field.py) for a field of size bits whose
\* data is buf: [err, buf].  bytes() of a list of bytes objects raises
\* TypeError; the names BitArray and size are bound nowhere in the module.
String_string(buf, size, value) ==
  IF size # NoneValue /\ Len(encode(value)) > size \div 8
  THEN [err |-> "ValueError", buf |-> buf]
  ELSE IF size # NoneValue /\ Len(encode(value)) < size \div 8
  THEN [err |-> "TypeError", buf |-> buf]
  ELSE [err |-> "NameError", buf |-> buf]

\* str.zfill(width)
RECURSIVE zfill(_, _)
zfill(string, width) ==
  IF Len(string) >= width THEN string ELSE zfill(<<"0">> \o string, width)

\* Field.parse: [err, val, seq], an integer val, or the sequence seq of
\* bits, bytes or characters.  _parse_int is int(string, 0) for decimal
\* digits, _parse_bin is bitarray(string.zfill(size * unit)), _parse_bytes
\* is bytes.fromhex(string), and a string is returned as it is.
parse(field, string) ==
  IF field.type \in {"int", "uint", "uintbe", "uintle"}
  THEN IF int_parse(string, 10).ok /\ (string[1] # "0" \/ digits_value(string, 10) = 0)
       THEN [err |-> "none", val |-> int_parse(string, 10).value, seq |-> << >>]
       ELSE [err |-> "ValueError", val |-> 0, seq |-> << >>]
  ELSE IF field.type = "bin"
  THEN IF \A i \in DOMAIN string : IsDigit(string[i], 2)
       THEN [err |-> "none", val |-> 0,
             seq |-> [i \in DOMAIN zfill(string, IF field.size.t = "int"
                                                  THEN field.size.n * field.unit ELSE 0) |->
                        DigitValue(zfill(string, IF field.size.t = "int"
                                                 THEN field.size.n * field.unit ELSE 0)[i])]]
       ELSE [err |-> "ValueError", val |-> 0, seq |-> << >>]
  ELSE IF field.type = "bytes"
  THEN IF fromhex(string).ok
       THEN [err |-> "none", val |-> 0, seq |-> fromhex(string).bytes]
       ELSE [err |-> "ValueError", val |-> 0, seq |-> << >>]
  ELSE [err |-> "none", val |-> 0, seq |-> string]

(***************************************************************************)
(* State machine of one field.  The structure type Rec has one field: a    *)
(* string of StrBytes bytes, an unsigned integer of one byte, a bit string *)
(* of four bits or a byte string of one byte.  view holds the field's      *)
(* bits.                                                                   *)
(***************************************************************************)
StrBytes == 2                    \* byte capacity of the string field

Alphabet == {"A", "B", " "}

RecFields ==
  {Field("s", "", "str", Unit_bytes, None, int(StrBytes), NoneValue, 0),
   Field("u", "", "uint", Unit_bytes, None, int(1), NoneValue, 0),
   Field("f", "", "bin", Unit_bits, None, int(4), NoneValue, 0),
   Field("r", "", "bytes", Unit_bytes, None, int(1), NoneValue, 0)}

\* The texts handed to Field.parse for a field of that type.
Texts(type) ==
  IF type = "uint" THEN {<<"5">>, <<"2", "5", "5">>, <<"2", "5", "6">>, <<"0", "7">>}
  ELSE IF type = "bin" THEN {t \in SeqsUpTo({"0", "1"}, 5) : Len(t) \in {2, 4, 5}}
  ELSE IF type = "bytes" THEN {<<"A">>, <<"A", "B">>, <<"A", "B", "C", "D">>}
  ELSE {<<"A">>}

InitField ==
  /\ NoPatch
  /\ \E field \in RecFields :
       /\ registry = [ty \in {"Rec"} |-> <<field>>]
       /\ IF field.type = "str"
          THEN \E content \in [1..StrBytes -> Alphabet] : view = bits(encode(content))
          ELSE view = bits([k \in 1..((field.size.n * field.unit + 7) \div 8) |-> 0])
  /\ vbuf = << >>
  /\ attrs = << >>
  /\ table = << >>
  /\ ret = [text |-> << >>, res |-> [err |-> "none", val |-> 0, seq |-> << >>]]
  /\ op = "init"
  /\ err = "none"

\* field.write(view, value) for the string field
WriteStr(value) ==
  /\ registry["Rec"][1].type = "str"
  /\ \E r \in {_set_str(view, value)} :
        /\ view' = r.buf
        /\ err' = r.err
  /\ ret' = [text |-> value, res |-> [err |-> "none", val |-> 0, seq |-> << >>]]
  /\ op' = "write"
  /\ UNCHANGED <<registry, vbuf, attrs, table>>
  /\ UNCHANGED patchvars

\* obj.string = value for a String (field.py) holding the field's bits
StringSet(value) ==
  /\ registry["Rec"][1].type = "str"
  /\ \E r \in {String_string(view, Len(view), value)} :
        /\ view' = r.buf
        /\ err' = r.err
  /\ ret' = [text |-> value, res |-> [err |-> "none", val |-> 0, seq |-> << >>]]
  /\ op' = "string"
  /\ UNCHANGED <<registry, vbuf, attrs, table>>
  /\ UNCHANGED patchvars

\* field.parse(text)
Parse(text) ==
  /\ text \in Texts(registry["Rec"][1].type)
  /\ \E r \in {parse(registry["Rec"][1], text)} :
        /\ ret' = [text |-> text, res |-> r]
        /\ err' = r.err
  /\ op' = "parse"
  /\ UNCHANGED <<registry, view, vbuf, attrs, table>>
  /\ UNCHANGED patchvars

NextField ==
  \/ \E value \in SeqsUpTo(Alphabet, StrBytes + 1) : WriteStr(value)
  \/ \E value \in SeqsUpTo(Alphabet, StrBytes + 1) : StringSet(value)
  \/ \E text \in UNION {Texts(field.type) : field \in RecFields} : Parse(text)

SpecField == InitField /\ [][NextField]_vars

(***************************************************************************)
(* Claims about fields                                                     *)
(***************************************************************************)
\* n copies of the space character
Spaces(n) == [k \in 1..n |-> " "]

\* C17: string field write.  Writing a value of m characters to a string
\* field of n bytes whose content differs from it stores, for m <= n, the
\* encoded value followed by n - m space bytes, and fails, for m > n, with
\* ValueError, the bytes of the field unchanged; writing the field's
\* current content writes nothing.  (SpecField)
C17_StringWrite ==
  [][(op' \in {"write", "string"})
       => \E n \in {Len(view) \div 8} :
            IF ret'.text = _get_str(view) THEN view' = view /\ err' = "none"
            ELSE IF Len(ret'.text) <= n
            THEN /\ err' = "none"
                 /\ view_bytes(view') = encode(ret'.text \o Spaces(n - Len(ret'.text)))
            ELSE err' = "ValueError" /\ view' = view]_vars

\* The size in bits declared by the one field of Rec
RecBits == registry["Rec"][1].size.n * registry["Rec"][1].unit

\* C18: parse rejects oversized values.  Field.parse fails with ValueError
\* whenever the text denotes a value that does not fit the declared size:
\* an integer outside 0 .. 2^bits - 1 for an integer field, more binary
\* digits than bits for a bit field, more hex pairs than bytes for a byte
\* field; a string of fewer binary digits comes back left-padded with zeros
\* to exactly the declared number of bits.  (SpecField)
C18_ParseRejectsOversized ==
  (op = "parse") =>
    \E field \in {registry["Rec"][1]} :
      /\ (field.type = "uint" /\ int_parse(ret.text, 10).ok
            /\ int_parse(ret.text, 10).value >= Exp2(RecBits))
           => ret.res.err = "ValueError"
      /\ (field.type = "bin" /\ Len(ret.text) > RecBits)
           => ret.res.err = "ValueError"
      /\ (field.type = "bin" /\ Len(ret.text) <= RecBits)
           => /\ ret.res.err = "none"
              /\ ret.res.seq = [k \in 1..(RecBits - Len(ret.text)) |-> 0]
                                 \o [i \in DOMAIN ret.text |-> DigitValue(ret.text[i])]
      /\ (field.type = "bytes" /\ Len(ret.text) > 2 * (RecBits \div 8))
           => ret.res.err = "ValueError"

(***************************************************************************)
(* Rendering of a structure (structures.py).  A rendering is the sequence  *)
(* of its lines, the line "key: value" kept as [key, val].                 *)
(***************************************************************************)
\* The lines f'{field.id}: {getattr(self, field.id)}\n' (identifier "i") or
\* f'{field.name}: {self[field.name]}\n' (identifier "n") for the fields
\* from position k on, in the order of self.fields: [err, out].  A value
\* that is a structure is formatted with the empty format spec, which
\* Structure.__format__ cannot unpack.
RECURSIVE format_lines(_, _, _, _, _, _)
format_lines(reg, fields, v, buf, identifier, k) ==
  IF k > Len(fields) THEN [err |-> "none", out |-> << >>]
  ELSE Bind(IF identifier = "i" THEN getattr(reg, fields, v, buf, fields[k].id)
            ELSE getitem(reg, fields, v, buf, fields[k].name), LAMBDA r :
         IF r.err # "none" THEN [err |-> r.err, out |-> << >>]
         ELSE IF r.kind = "struct" THEN [err |-> "ValueError", out |-> << >>]
         ELSE Bind(format_lines(reg, fields, v, buf, identifier, k + 1), LAMBDA rest :
                IF rest.err # "none" THEN rest
                ELSE [err |-> "none",
                      out |-> <<[key |-> IF identifier = "i" THEN fields[k].id
                                         ELSE fields[k].name,
                                 val |-> r.val]>> \o rest.out]))

\* Structure.__format__
Structure_format(reg, fields, v, buf, spec) ==
  IF Len(split(spec)) # 2 THEN [err |-> "ValueError", out |-> << >>]
  ELSE IF split(spec)[1] # <<"y">> THEN [err |-> "ValueError", out |-> << >>]
  ELSE IF split(spec)[2] = <<"i">> THEN format_lines(reg, fields, v, buf, "i", 1)
  ELSE IF split(spec)[2] = <<"n">> THEN format_lines(reg, fields, v, buf, "n", 1)
  ELSE [err |-> "ValueError", out |-> << >>]

\* Structure.__iter__
Structure_iter(fields) == [k \in DOMAIN fields |-> fields[k].name]

\* yaml.dump(d) of a dict d of integers, given as its items: the keys come
\* out sorted (sort_keys is True by default).  Keys are one character long.
yaml_dump(items) ==
  [k \in DOMAIN items |->
     CHOOSE it \in Range(items) :
       Ord(it.key) = sorted({Ord(items[j].key) : j \in DOMAIN items})[k]]

\* Structure.__str__ of a structure of integer fields: dict(self) takes the
\* keys from __iter__ and the values from __getitem__.
Structure_str(reg, fields, v, buf) ==
  Bind(format_lines(reg, fields, v, buf, "n", 1), LAMBDA d :
    IF d.err # "none" THEN d ELSE [err |-> "none", out |-> yaml_dump(d.out)])

(***************************************************************************)
(* State machine of rendering.  The structure type Rec has three integer   *)
(* fields of one byte each at the bytes 0, 1 and 2 of the view; the names  *)
(* and the display orders of the fields are any arrangement.               *)
(***************************************************************************)
Permutations3(S) ==
  {p \in [1..3 -> S] : \A i, j \in 1..3 : i # j => p[i] # p[j]}

RenderFields ==
  {[k \in 1..3 |-> Field(<<"p", "q", "r">>[k], nm[k], "uint", Unit_bytes, int(k - 1),
                         int(1), NoneValue, ord[k])] :
     nm \in Permutations3({"K", "L", "M"}), ord \in Permutations3(1..3)}

FormatSpecs == {<<"y", ":", "i">>, <<"y", ":", "n">>, <<"y">>, <<"x", ":", "i">>}

InitRender ==
  /\ NoPatch
  /\ \E fields \in RenderFields : registry = [t \in {"Rec"} |-> fields]
  /\ view \in Buffers
  /\ vbuf = << >>
  /\ attrs = << >>
  /\ table = << >>
  /\ ret = [spec |-> << >>, res |-> [err |-> "none", out |-> << >>]]
  /\ op = "init"
  /\ err = "none"

\* format(self, spec)
Format(spec) ==
  /\ \E r \in {Structure_format(registry, registry["Rec"], root(view), view, spec)} :
        /\ ret' = [spec |-> spec, res |-> r]
        /\ err' = r.err
  /\ op' = "format"
  /\ UNCHANGED <<registry, view, vbuf, attrs, table>>
  /\ UNCHANGED patchvars

\* str(self)
Str ==
  /\ \E r \in {Structure_str(registry, registry["Rec"], root(view), view)} :
        /\ ret' = [spec |-> << >>, res |-> r]
        /\ err' = r.err
  /\ op' = "str"
  /\ UNCHANGED <<registry, view, vbuf, attrs, table>>
  /\ UNCHANGED patchvars

\* list(self)
Iter ==
  /\ ret' = [spec |-> << >>,
             res |-> [err |-> "none", out |-> Structure_iter(registry["Rec"])]]
  /\ err' = "none"
  /\ op' = "iter"
  /\ UNCHANGED <<registry, view, vbuf, attrs, table>>
  /\ UNCHANGED patchvars

NextRender ==
  \/ \E spec \in FormatSpecs : Format(spec)
  \/ Str
  \/ Iter

SpecRender == InitRender /\ [][NextRender]_vars

(***************************************************************************)
(* Claims about rendering                                                  *)
(***************************************************************************)
\* The position in fields of the field whose id or name is key
FieldOf(fields, key) ==
  CHOOSE k \in DOMAIN fields : fields[k].id = key \/ fields[k].name = key

\* C19: display-order rendering.  str() and the formats 'y:i' and 'y:n'
\* list every field of the structure once, in ascending order of the
\* fields' order attribute, whatever the order of definition and the names;
\* iteration yields the names in the order of definition.  (SpecRender)
C19_DisplayOrder ==
  \E fields \in {registry["Rec"]} :
    /\ (op = "str" \/ (op = "format" /\ ret.spec \in {<<"y", ":", "i">>, <<"y", ":", "n">>}))
         => /\ ret.res.err = "none"
            /\ Len(ret.res.out) = Len(fields)
            /\ \A i, j \in DOMAIN ret.res.out :
                 i < j => fields[FieldOf(fields, ret.res.out[i].key)].order
                            < fields[FieldOf(fields, ret.res.out[j].key)].order
    /\ (op = "iter")
         => ret.res.out = [k \in DOMAIN fields |-> fields[k].name]

(***************************************************************************)
(* Definition of structure types (structures.py)                           *)
(***************************************************************************)
\* The names hasattr(Structure, name) finds: what the class body binds, the
\* mixin methods of Mapping and the parent property of NodeMixin.  view is
\* bound by __init__ on each object and fields by define on each new type:
\* the class Structure has neither.
ClassAttributes ==
  {"registry", "labels", "_subview", "_get", "_set", "_fbid", "_fbnm", "size",
   "_debug", "copy", "define", "keys", "items", "values", "get", "parent"}

\* Field.identifiers
identifiers(field) == {field.id, field.name}

\* Structure.__init_subclass__ for a new class called name: [err, reg]
init_subclass(reg, name, fields) ==
  IF name \in DOMAIN reg THEN [err |-> "ValueError", reg |-> reg]
  ELSE [err |-> "none",
        reg |-> [t \in DOMAIN reg \cup {name} |-> IF t = name THEN fields ELSE reg[t]]]

\* Structure.define: [err, reg]
define(reg, name, fields) ==
  IF \E k \in DOMAIN fields : identifiers(fields[k]) \cap ClassAttributes # {}
  THEN [err |-> "ValueError", reg |-> reg]
  ELSE IF \E a, b \in DOMAIN fields :
            a < b /\ identifiers(fields[a]) \cap identifiers(fields[b]) # {}
  THEN [err |-> "ValueError", reg |-> reg]
  ELSE init_subclass(reg, name, fields)

(***************************************************************************)
(* State machine of the type registry.  It starts with BitField, the one   *)
(* subclass the module itself declares; define is called with one or two   *)
(* fields.                                                                 *)
(***************************************************************************)
DefineFields ==
  {Field(id, name, "uint", Unit_bytes, None, int(1), NoneValue, 0) :
     id \in {"a", "view", "size"}, name \in {"A", "a", "fields"}}

FieldLists ==
  {<<f>> : f \in DefineFields} \cup {<<f, g>> : f, g \in DefineFields}

TypeNames == {"Rec", "BitField"}

InitDefine ==
  /\ NoPatch
  /\ registry = [t \in {"BitField"} |-> << >>]
  /\ view = << >>
  /\ vbuf = << >>
  /\ attrs = << >>
  /\ table = << >>
  /\ ret = [name |-> "", fields |-> << >>, before |-> registry]
  /\ op = "init"
  /\ err = "none"

\* Structure.define(name, fields)
Define(name, fields) ==
  /\ \E r \in {define(registry, name, fields)} :
        /\ registry' = r.reg
        /\ err' = r.err
  /\ ret' = [name |-> name, fields |-> fields, before |-> registry]
  /\ op' = "define"
  /\ UNCHANGED <<view, vbuf, attrs, table>>
  /\ UNCHANGED patchvars

NextDefine == \E name \in TypeNames, fields \in FieldLists : Define(name, fields)

SpecDefine == InitDefine /\ [][NextDefine]_vars

(***************************************************************************)
(* Claims about the definition of types                                    *)
(***************************************************************************)
\* The attributes of a structure that the claim names as reserved
Reserved == {"view", "parent", "fields", "size", "copy"}

\* C20: structure definition validation.  define(name, fields) fails with
\* ValueError and leaves the registry as it was whenever two of the fields
\* share an id or a name, whenever an id or a name of a field is a reserved
\* attribute of a structure (view, parent, fields, size, copy), or whenever
\* name is registered already; otherwise it registers the one new type name
\* with the fields in the given order.  (SpecDefine)
C20_DefineValidation ==
  (op = "define") =>
    IF \/ \E a, b \in DOMAIN ret.fields :
            a # b /\ identifiers(ret.fields[a]) \cap identifiers(ret.fields[b]) # {}
       \/ \E k \in DOMAIN ret.fields : identifiers(ret.fields[k]) \cap Reserved # {}
       \/ ret.name \in DOMAIN ret.before
    THEN err = "ValueError" /\ registry = ret.before
    ELSE /\ err = "none"
         /\ DOMAIN registry = DOMAIN ret.before \cup {ret.name}
         /\ registry[ret.name] = ret.fields
         /\ \A t \in DOMAIN ret.before : registry[t] = ret.before[t]

(***************************************************************************)
(* The dictionary objects of a patch (patch.py).  heap.obj maps the id of  *)
(* an object to the dictionary it holds, heap.data is the id of the        *)
(* dictionary the caller passed to Patch(data) and heap.changes the id     *)
(* bound to self.changes.  An operation that builds a dictionary takes a   *)
(* new id; an operation in place stores under the id it was handed.        *)
(***************************************************************************)
\* The id of an object created now
new_id(h) ==
  CHOOSE i \in 1..(Cardinality(DOMAIN h.obj) + 1) :
    i \notin DOMAIN h.obj /\ \A j \in 1..(i - 1) : j \in DOMAIN h.obj

\* The object id now holds the dictionary d.
store(h, id, d) ==
  [h EXCEPT !.obj = [i \in DOMAIN h.obj \cup {id} |-> IF i = id THEN d ELSE h.obj[i]]]

\* The objects no name refers to any more are gone.
collect(h) == [h EXCEPT !.obj = [i \in {h.data, h.changes} |-> h.obj[i]]]

\* Faulty variant of Patch_init: self.changes is bound to the caller's
\* dictionary itself.  C21 must detect it.
Patch_init_nocopy(d) == [obj |-> [i \in {1} |-> d], data |-> 1, changes |-> 1]

\* Patch.__init__(data) without rom: self.changes = data.copy()
Patch_init(d) ==
  Bind([obj |-> [i \in {1} |-> d], data |-> 1, changes |-> 1], LAMBDA h :
    Bind(new_id(h), LAMBDA c : [store(h, c, dict_copy(h.obj[h.data])) EXCEPT !.changes = c]))

\* Patch.filter on the heap: [err, h].  The comprehension builds a new
\* dictionary and self.changes is bound to it; getbyte raising leaves
\* self.changes as it was.
heap_filter(h, r) ==
  Bind(filter(h.obj[h.changes], r), LAMBDA f :
    IF f.err # "none" THEN [err |-> f.err, h |-> h]
    ELSE Bind(new_id(h), LAMBDA c :
           [err |-> "none",
            h |-> collect([store(h, c, f.changes) EXCEPT !.changes = c])]))

\* Patch._blockify(changes) on the heap: [id, h], merged a new dictionary
heap_blockify(h, c) ==
  Bind(new_id(h), LAMBDA m : [id |-> m, h |-> store(h, m, _blockify(h.obj[c]))])

\* Patch._ips_sanitize_changes on the heap: [err, blocks, h], h the heap
\* when the writer that called it returns.  blocks.pop and blocks[...] = ...
\* act on b, the dictionary _blockify returned.
heap_sanitize(h, bogobyte) ==
  Bind(heap_blockify(h, h.changes), LAMBDA m :
    Bind(m.id, LAMBDA b :
      IF _ips_bogo_address \notin DOMAIN m.h.obj[b]
      THEN [err |-> "none", blocks |-> m.h.obj[m.id], h |-> collect(m.h)]
      ELSE Bind(store(m.h, b, Pop(m.h.obj[b], _ips_bogo_address)), LAMBDA popped :
             IF bogobyte = NoneValue
             THEN [err |-> "PatchValueError", blocks |-> EmptyDict, h |-> collect(popped)]
             ELSE Bind(store(popped, b,
                             Put(popped.obj[b], _ips_bogo_address - 1,
                                 to_bytes(bogobyte, 1) \o m.h.obj[b][_ips_bogo_address])),
                       LAMBDA put :
                         [err |-> "none", blocks |-> put.obj[m.id], h |-> collect(put)]))))

(***************************************************************************)
(* State machine of a patch and the dictionary of its caller.  data and    *)
(* changes are what the caller's dictionary and self.changes hold.         *)
(***************************************************************************)
\* The callers' dictionaries: entries at a low offset and around the
\* sentinel address.
FrameDicts ==
  {d \in Dicts : DOMAIN d \subseteq {17, _ips_bogo_address - 1, _ips_bogo_address}}

\* Patch(data), rom at hand for filter
InitFrame ==
  /\ data \in FrameDicts
  /\ heap = Patch_init(data)
  /\ changes = heap.obj[heap.changes]
  /\ rom \in Roms
  /\ blocks = EmptyDict
  /\ bfile = << >>
  /\ tfile = << >>
  /\ bogo = NoneValue
  /\ loaded = << >>
  /\ op = "init"
  /\ err = "none"
  /\ errline = 0
  /\ NoStructure

\* patch.filter(rom)
FrameFilter ==
  /\ \E r \in {heap_filter(heap, rom)} :
        /\ heap' = r.h
        /\ data' = r.h.obj[r.h.data]
        /\ changes' = r.h.obj[r.h.changes]
        /\ err' = r.err
  /\ op' = "filter"
  /\ errline' = 0
  /\ UNCHANGED <<rom, blocks, bfile, tfile, bogo, loaded>>
  /\ UNCHANGED structvars

\* Patch._blockify(patch.changes): the caller keeps the dictionary returned.
FrameBlockify ==
  /\ \E r \in {heap_blockify(heap, heap.changes)} :
        /\ blocks' = r.h.obj[r.id]
        /\ \E h \in {collect(r.h)} :
              /\ heap' = h
              /\ data' = h.obj[h.data]
              /\ changes' = h.obj[h.changes]
  /\ op' = "_blockify"
  /\ err' = "none"
  /\ errline' = 0
  /\ UNCHANGED <<rom, bfile, tfile, bogo, loaded>>
  /\ UNCHANGED structvars

\* patch.to_ips(f, bogobyte)
FrameToIps(bogobyte) ==
  /\ \E s \in {heap_sanitize(heap, bogobyte)} :
        /\ bfile' = IF s.err # "none" THEN << >>
                    ELSE encode(_ips_header)
                         \o ips_records(s.blocks, sorted(DOMAIN s.blocks))
                         \o encode(_ips_footer)
        /\ err' = s.err
        /\ heap' = s.h
        /\ data' = s.h.obj[s.h.data]
        /\ changes' = s.h.obj[s.h.changes]
  /\ bogo' = bogobyte
  /\ op' = "to_ips"
  /\ errline' = 0
  /\ UNCHANGED <<rom, blocks, tfile, loaded>>
  /\ UNCHANGED structvars

\* patch.to_ipst(f, bogobyte)
FrameToIpst(bogobyte) ==
  /\ \E s \in {heap_sanitize(heap, bogobyte)} :
        /\ tfile' = IF s.err # "none" THEN << >>
                    ELSE <<print_line(_ips_header)>>
                         \o ipst_records(s.blocks, sorted(DOMAIN s.blocks))
                         \o <<print_line(_ips_footer)>>
        /\ err' = s.err
        /\ heap' = s.h
        /\ data' = s.h.obj[s.h.data]
        /\ changes' = s.h.obj[s.h.changes]
  /\ bogo' = bogobyte
  /\ op' = "to_ipst"
  /\ errline' = 0
  /\ UNCHANGED <<rom, blocks, bfile, loaded>>
  /\ UNCHANGED structvars

NextFrame ==
  \/ FrameFilter
  \/ FrameBlockify
  \/ \E b \in BogoBytes : FrameToIps(b)
  \/ \E b \in BogoBytes : FrameToIpst(b)

SpecFrame == InitFrame /\ [][NextFrame]_vars

(***************************************************************************)
(* Claims about what serialisation and filtering leave alone               *)
(***************************************************************************)
\* C21: serialisation does not change the patch.  A call of _blockify, to_ips
\* or to_ipst, with or without a bogo byte, succeeding or failing, with a
\* block shifted off the sentinel address or not, leaves self.changes, the
\* caller's dictionary and every object either refers to as they were; what
\* a writer writes is what the patch's changes and the bogo byte determine,
\* so writing the same patch twice writes the same file.  self.changes is
\* never the caller's dictionary itself, and filter leaves the caller's
\* dictionary as it was.  (SpecFrame)
C21_SerialisationFrame ==
  [][/\ (op' \in {"_blockify", "to_ips", "to_ipst"})
          => /\ changes' = changes
             /\ data' = data
             /\ heap' = heap
     /\ (op' = "to_ips")
          => \E w \in {to_ips(changes, bogo')} : bfile' = w.out /\ err' = w.err
     /\ (op' = "to_ipst")
          => \E w \in {to_ipst(changes, bogo')} : tfile' = w.out /\ err' = w.err
     /\ (op = "to_ips" /\ op' = "to_ips" /\ bogo' = bogo)
          => bfile' = bfile /\ err' = err
     /\ (op = "to_ipst" /\ op' = "to_ipst" /\ bogo' = bogo)
          => tfile' = tfile /\ err' = err
     /\ (op' = "filter")
          => /\ data' = data
             /\ heap'.data = heap.data
             /\ heap'.obj[heap.data] = heap.obj[heap.data]
     /\ heap'.changes # heap'.data]_vars

\* Both files hold the current patch, written with a bogo byte and the block
\* at the sentinel address shifted, after filter has taken an entry out of
\* the patch and _blockify has been called; the caller's dictionary still
\* has the entry.
C21_Witness ==
  /\ op \in {"to_ips", "to_ipst"}
  /\ err = "none"
  /\ bogo = 171
  /\ _ips_bogo_address \in DOMAIN changes
  /\ bfile = to_ips(changes, 171).out
  /\ tfile = to_ipst(changes, 171).out
  /\ blocks = _blockify(changes)
  /\ changes # data
  /\ heap.obj[heap.data] = data
  /\ heap.changes # heap.data

====
